---- MODULE Spec2Model ----
(***************************************************************************)
(* Verification model of the chess engine core in src/main.c: the worker   *)
(* scheduler (init / setupEvaluation / evaluateStart / evaluateStop and    *)
(* runThread), the node arena and move pool with their bump cursors, the   *)
(* per-worker min-heap queue, the expansion engine with evalBacktrack, the *)
(* root sorter and the board replay (playMove / playMoveUpdating).         *)
(***************************************************************************)
EXTENDS Integers, Sequences, FiniteSets, TLC

\* ------------------------------------------------------------------------
\* Program constants
\* ------------------------------------------------------------------------
WHITE == 0
BLACK == 1

NORMAL == 0
WHITE_WIN == 1
BLACK_WIN == 2
DRAW == 3

UNDEFINED == -1
ROOT_SCORE == 0
DEPTH_STEP == 10
WHITE_WINS_EVAL == 1000000000
BLACK_WINS_EVAL == -1000000000
DRAW_EVAL == 0
WHITE_WINS_EVAL_THRESHOLD == 100000000
BLACK_WINS_EVAL_THRESHOLD == -100000000
EVAL_FORCED_MATE_INCREMENT == 1000

MIN_TOTAL == 1000
MAX_TOTAL == 2000000000
MIN_THREADS == 2
MAX_THREADS == 100
DEFAULT_SEED_REPS == 500
DEFAULT_DEPTH_LIMIT == 30

\* ------------------------------------------------------------------------
\* Bounds of the model
\* ------------------------------------------------------------------------
\* Worker slots of the model: thread ids 0..MaxThreads-1 (0 is the driver).
MaxThreads == 3
\* Most moves the generator yields for one position.
MaxMoves == 2
\* Positions at this depth (score = DEPTH_STEP * depth) have no moves.
MaxDepth == 2
\* Slots of arena memory the model keeps (indexes 0..NodeSlots-1).
NodeSlots == 16
\* Longest root-to-node path of the board replay.
MaxPath == 3
\* The queue on its own: node indexes 0..HeapNodes-1 and at most MaxHeap
\* queued entries.
HeapNodes == 3
MaxHeap == 5
\* Capacity of the node arena or of the move pool in the sessions that run
\* out of space (scaled down from the 1000 that init accepts at least).
SmallCap == 3
\* Most root children of the sorter on its own.
MaxChoices == 4

Threads == 0 .. (MaxThreads - 1)
Workers == 1 .. (MaxThreads - 1)
NodeIdx == 0 .. (NodeSlots - 1)

\* Static move deltas the generator may report (evals[i] of a child pool).
Deltas == {-1, 1}

\* ------------------------------------------------------------------------
\* Per-worker min-heap queue (USE_SCORE_BUCKETS = 0)
\* ------------------------------------------------------------------------
Swap(h, i, j) == [h EXCEPT ![i] = h[j], ![j] = h[i]]

RECURSIVE ReheapUp(_, _, _)
ReheapUp(h, i, sc) ==
    IF i > 1
    THEN LET p == i \div 2
         IN IF sc[h[i]] < sc[h[p]]
            THEN ReheapUp(Swap(h, i, p), p, sc)
            ELSE h
    ELSE h

\* h is the heap h[1..futuresQueueSize]; sc maps a node index to its score.
addFutureQueue(h, q, sc) ==
    LET l == Len(h) + 1
    IN ReheapUp(Append(h, q), l, sc)

RECURSIVE ReheapDown(_, _, _, _)
ReheapDown(h, i, s, sc) ==
    LET l == i * 2
        r == i * 2 + 1
    IN IF l >= s
       THEN h
       ELSE IF r >= s
            THEN IF sc[h[i]] > sc[h[l]] THEN Swap(h, i, l) ELSE h
            ELSE IF sc[h[i]] > sc[h[l]] \/ sc[h[i]] > sc[h[r]]
                 THEN IF sc[h[l]] < sc[h[r]]
                      THEN ReheapDown(Swap(h, i, l), l, s, sc)
                      ELSE ReheapDown(Swap(h, i, r), r, s, sc)
                 ELSE h

\* A pop that moves the last entry to the top and leaves it there.
getFirstFutureNoReheap(h, sc) ==
    LET s == Len(h)
        h1 == [h EXCEPT ![1] = h[s]]
    IN [o |-> h[1], heap |-> SubSeq(h1, 1, s - 1)]

\* A pop that takes the last entry of the heap array.
getFirstFutureLast(h, sc) ==
    [o |-> h[Len(h)], heap |-> SubSeq(h, 1, Len(h) - 1)]

\* Pop on a non-empty heap: the returned index o and the remaining heap.
getFirstFuture(h, sc) ==
    LET s == Len(h)
        h1 == [h EXCEPT ![1] = h[s]]
        h2 == ReheapDown(h1, 1, s, sc)
    IN [o |-> h[1], heap |-> SubSeq(h2, 1, s - 1)]

\* ------------------------------------------------------------------------
\* Eval backtracking
\* ------------------------------------------------------------------------
evalForcedMateDelay(e) ==
    IF e >= WHITE_WINS_EVAL_THRESHOLD
    THEN e - EVAL_FORCED_MATE_INCREMENT
    ELSE IF e <= BLACK_WINS_EVAL_THRESHOLD
         THEN e + EVAL_FORCED_MATE_INCREMENT
         ELSE e

\* A read of nodes[k]; outside the modelled memory it yields unwritten memory.
At(ns, k) ==
    IF k \in DOMAIN ns
    THEN ns[k]
    ELSE [parentIndex |-> 0, numChildren |-> 0, childStartIndex |-> 0,
          numMoves |-> 0, moveStartIndex |-> 0, e |-> 0, score |-> 0,
          PLAYER_TURN |-> 0, GAME_STATE |-> 0]

RECURSIVE BestOfChildren(_, _, _, _, _, _)
\* The loop of evalBacktrack over children c+1 .. c+nc-1, started with the
\* delayed eval of the first child.
BestOfChildren(ns, c, nc, i, e, turn) ==
    IF i < nc
    THEN LET childEval == evalForcedMateDelay(At(ns, c + i).e)
             e2 == IF turn = BLACK
                   THEN (IF childEval < e THEN childEval ELSE e)
                   ELSE (IF childEval > e THEN childEval ELSE e)
         IN BestOfChildren(ns, c, nc, i + 1, e2, turn)
    ELSE e

\* The eval evalBacktrack computes for node n from the evals of its slice.
backtrackEval(ns, n) ==
    LET c == ns[n].childStartIndex
    IN BestOfChildren(ns, c, ns[n].numChildren, 1,
                      evalForcedMateDelay(At(ns, c).e), ns[n].PLAYER_TURN)

\* ------------------------------------------------------------------------
\* Root sorter
\* ------------------------------------------------------------------------
RECURSIVE SortShift(_, _, _, _, _, _)
\* The inner while loop of getSortedChoices; j is the C index (0-based),
\* sm[j + 1] the C element sortedMoves[j].
SortShift(sm, j, n, e, playerTurn, ns) ==
    IF j >= 0 /\ ((playerTurn = BLACK /\ ns[sm[j + 1]].e > e)
                  \/ (playerTurn = WHITE /\ ns[sm[j + 1]].e < e))
    THEN SortShift([sm EXCEPT ![j + 2] = sm[j + 1]], j - 1, n, e, playerTurn, ns)
    ELSE [sm EXCEPT ![j + 2] = n]

RECURSIVE SortFrom(_, _, _, _, _)
SortFrom(sm, i, numChoices, playerTurn, ns) ==
    IF i < numChoices
    THEN SortFrom(SortShift(sm, i - 1, sm[i + 1], ns[sm[i + 1]].e, playerTurn, ns),
                  i + 1, numChoices, playerTurn, ns)
    ELSE sm

\* A sorter that orders every root as it orders a white one.
getSortedChoicesAsWhite(ns) ==
    LET numChoices == ns[0].numChildren
        c == ns[0].childStartIndex
        sm == [i \in 1 .. numChoices |-> c + i - 1]
    IN SortFrom(sm, 1, numChoices, WHITE, ns)

\* sortedMoves after getSortedChoices, as node indexes.
getSortedChoices(ns) ==
    LET numChoices == ns[0].numChildren
        c == ns[0].childStartIndex
        sm == [i \in 1 .. numChoices |-> c + i - 1]
    IN SortFrom(sm, 1, numChoices, ns[0].PLAYER_TURN, ns)

\* ------------------------------------------------------------------------
\* State
\* ------------------------------------------------------------------------
VARIABLES
    initComplete, setupComplete, numThreads, numSeedReps,
    evaluationDepthLimit, analysisD,
    run, running, live, numThreadsRunning,
    nodeCap, numNodes, globalMoveCap, globalMoveLength, nodes,
    futuresHeap,
    calcNumNodesAdded, calcNumMovesAdded, calcNumNodesExamined,
    calcNumStalematesFound, calcNumWhiteWinsFound, calcNumBlackWinsFound,
    calcNumNormalsFound,
    sortedMoves,
    dpc, dloc, pc, loc,
    ret, popped, dupPop, failedBy, actedAfterFail, stragglers, expandedBy,
    aux, calls

cmd == <<evaluationDepthLimit, analysisD>>
ctl == <<initComplete, setupComplete, numThreads, numSeedReps, cmd>>
flags == <<run, running, live>>
arena == <<nodeCap, numNodes, globalMoveCap, globalMoveLength, nodes>>
found == <<calcNumStalematesFound, calcNumWhiteWinsFound,
           calcNumBlackWinsFound, calcNumNormalsFound>>
stats == <<calcNumNodesAdded, calcNumMovesAdded, calcNumNodesExamined, found>>
ghost == <<popped, dupPop, failedBy, actedAfterFail, stragglers, expandedBy>>
schedVars == <<ctl, flags, numThreadsRunning, arena, futuresHeap, stats,
               sortedMoves, dpc, dloc, pc, loc, ret, ghost>>
vars == <<schedVars, aux, calls>>

\* Arena memory that was never written (realloc does not initialise it).
JunkNode ==
    [parentIndex |-> 0, numChildren |-> 0, childStartIndex |-> 0,
     numMoves |-> 0, moveStartIndex |-> 0, e |-> 0, score |-> 0,
     PLAYER_TURN |-> WHITE, GAME_STATE |-> NORMAL]

ZeroLoc == [index |-> 0, l |-> 0, nc |-> 0, i |-> 0, bn |-> 0, be |-> 0, reps |-> 0]
ZeroDloc == [i |-> 0, op |-> "none", tn |-> 0, tm |-> 0, tc |-> 0, sr |-> 0]

Scores(ns) == [k \in NodeIdx |-> ns[k].score]

\* The position descriptor D of the standard root of the given side to move.
RootData(turn) ==
    [wKINGSIDE_CASTLE |-> 1, wQUEENSIDE_CASTLE |-> 0,
     bKINGSIDE_CASTLE |-> 1, bQUEENSIDE_CASTLE |-> 0,
     EN_PASSANT_FILE |-> -1, FIFTY_MOVE_COUNTER |-> 0,
     wKING_SQUARE |-> 4, bKING_SQUARE |-> 60,
     SQUARE_FROM |-> 0, SQUARE_TO |-> 0, PLAYER_TURN |-> turn,
     GAME_STATE |-> NORMAL]

\* analysisD in static storage before any position was read.
ZeroD == [f \in DOMAIN RootData(WHITE) |-> 0]

\* The globals as the program starts (static storage is zero, numSeedReps 500).
SchedInit ==
    /\ initComplete = FALSE
    /\ evaluationDepthLimit = DEFAULT_DEPTH_LIMIT
    /\ analysisD = ZeroD
    /\ setupComplete = FALSE
    /\ numThreads = 0
    /\ numSeedReps = DEFAULT_SEED_REPS
    /\ run = [t \in Threads |-> FALSE]
    /\ running = [t \in Threads |-> FALSE]
    /\ live = [t \in Threads |-> FALSE]
    /\ numThreadsRunning = 0
    /\ nodeCap = 0
    /\ numNodes = 0
    /\ globalMoveCap = 0
    /\ globalMoveLength = 0
    /\ nodes = [k \in NodeIdx |-> JunkNode]
    /\ futuresHeap = [t \in Threads |-> <<>>]
    /\ calcNumNodesAdded = 0
    /\ calcNumMovesAdded = 0
    /\ calcNumNodesExamined = 0
    /\ calcNumStalematesFound = 0
    /\ calcNumWhiteWinsFound = 0
    /\ calcNumBlackWinsFound = 0
    /\ calcNumNormalsFound = 0
    /\ sortedMoves = <<>>
    /\ dpc = "idle"
    /\ dloc = ZeroDloc
    /\ pc = [t \in Threads |-> "none"]
    /\ loc = [t \in Threads |-> ZeroLoc]
    /\ ret = [op |-> "none", ok |-> FALSE, args |-> <<>>]
    /\ popped = {}
    /\ dupPop = FALSE
    /\ failedBy = {}
    /\ actedAfterFail = FALSE
    /\ stragglers = {}
    /\ expandedBy = [k \in NodeIdx |-> -1]

\* ------------------------------------------------------------------------
\* Move generation as seen by the arena: the generator's result for one
\* position is an input (k moves with static deltas evals[1..k]; for k = 0
\* whether the side to move is in check).
\* ------------------------------------------------------------------------
GenInputs(score) ==
    {[k |-> 0, evals |-> <<>>, check |-> b] : b \in BOOLEAN}
    \cup (IF score < DEPTH_STEP * aux.depth
          THEN UNION {{[k |-> k, evals |-> ev, check |-> FALSE] :
                          ev \in [1 .. k -> aux.deltas]} : k \in 1 .. MaxMoves}
          ELSE {})

RECURSIVE BestStatic(_, _, _, _, _)
\* The loop of examineAllSemilegalMoves over the child pool.
BestStatic(evals, i, parentEval, best, playerTurn) ==
    IF i <= Len(evals)
    THEN LET eval == parentEval + evals[i]
             b2 == IF playerTurn = BLACK
                   THEN (IF eval < best THEN eval ELSE best)
                   ELSE (IF eval > best THEN eval ELSE best)
         IN BestStatic(evals, i + 1, parentEval, b2, playerTurn)
    ELSE best

\* examineAllSemilegalMoves(t, nodeIndex) on arena ns, move cursor gml,
\* counter cma and thread t's heap h, for generator result g.
examineAllSemilegalMoves(ns, gml, gmc, cma, h, nodeIndex, g) ==
    LET n == ns[nodeIndex]
        playerTurn == n.PLAYER_TURN
    IN IF g.k = 0
       THEN LET st == IF ~g.check THEN DRAW
                      ELSE IF playerTurn = BLACK THEN WHITE_WIN ELSE BLACK_WIN
                ev == IF ~g.check THEN DRAW_EVAL
                      ELSE IF playerTurn = BLACK THEN WHITE_WINS_EVAL
                           ELSE BLACK_WINS_EVAL
            IN [nodes |-> [ns EXCEPT ![nodeIndex].GAME_STATE = st,
                                     ![nodeIndex].e = ev],
                gml |-> gml, cma |-> cma, heap |-> h, full |-> FALSE]
       ELSE IF gml >= gmc
            THEN [nodes |-> ns, gml |-> gml + g.k, cma |-> cma, heap |-> h,
                  full |-> TRUE]
            ELSE LET parentEval == IF n.parentIndex >= 0
                                   THEN ns[n.parentIndex].e ELSE 0
                     start == IF playerTurn = BLACK THEN WHITE_WINS_EVAL
                              ELSE BLACK_WINS_EVAL
                     best == BestStatic(g.evals, 1, parentEval, start, playerTurn)
                     ns2 == [ns EXCEPT ![nodeIndex].numMoves = g.k,
                                       ![nodeIndex].moveStartIndex = gml,
                                       ![nodeIndex].e = best]
                 IN [nodes |-> ns2, gml |-> gml + g.k, cma |-> cma + g.k,
                     heap |-> addFutureQueue(h, nodeIndex, Scores(ns2)),
                     full |-> FALSE]

\* ------------------------------------------------------------------------
\* The driver: the API calls of one behaviour are the input aux.script, a
\* sequence of [op, a] (a the arguments); calls counts the calls made.
\* ------------------------------------------------------------------------
NextCall(op, a) ==
    /\ calls < Len(aux.script)
    /\ aux.script[calls + 1] = [op |-> op, a |-> a]

\* ------------------------------------------------------------------------
\* init and killAllThreads
\* ------------------------------------------------------------------------
\* A check that rejects the smallest arena size.
InitParamsValidOffByOne(tn, tm, tc, sr) ==
    /\ ~(tn <= MIN_TOTAL \/ tn > MAX_TOTAL)
    /\ ~(tm < MIN_TOTAL \/ tm > MAX_TOTAL)
    /\ ~(tc < MIN_THREADS \/ tc > MAX_THREADS)
    /\ ~(sr < 0 \/ sr > MAX_TOTAL)

InitParamsValid(tn, tm, tc, sr) ==
    /\ ~(tn < MIN_TOTAL \/ tn > MAX_TOTAL)
    /\ ~(tm < MIN_TOTAL \/ tm > MAX_TOTAL)
    /\ ~(tc < MIN_THREADS \/ tc > MAX_THREADS)
    /\ ~(sr < 0 \/ sr > MAX_TOTAL)

\* init up to the parameter checks and setupComplete = 0.
initCall(tn, tm, tc, sr) ==
    /\ dpc = "idle"
    /\ NextCall("init", <<tn, tm, tc, sr>>)
    /\ calls' = calls + 1
    /\ IF InitParamsValid(tn, tm, tc, sr)
       THEN /\ setupComplete' = FALSE
            /\ dpc' = "kill_live"
            /\ dloc' = [i |-> 1, op |-> "init", tn |-> tn, tm |-> tm,
                        tc |-> tc, sr |-> sr]
            /\ UNCHANGED ret
       ELSE /\ ret' = [op |-> "init", ok |-> FALSE, args |-> <<tn, tm, tc, sr>>]
            /\ UNCHANGED <<setupComplete, dpc, dloc>>
    /\ UNCHANGED <<initComplete, numThreads, numSeedReps, cmd, flags,
                   numThreadsRunning, arena, futuresHeap, stats, sortedMoves,
                   pc, loc, ghost, aux>>

\* killAllThreads: threads[i].live.store(0), or the end of the first loop.
killLive ==
    /\ dpc = "kill_live"
    /\ IF dloc.i < numThreads
       THEN /\ live' = [live EXCEPT ![dloc.i] = FALSE]
            /\ dpc' = "kill_run"
       ELSE /\ dpc' = "kill_join"
            /\ UNCHANGED live
    /\ UNCHANGED <<ctl, run, running, numThreadsRunning, arena, futuresHeap,
                   stats, sortedMoves, dloc, pc, loc, ret, ghost, aux, calls>>

\* killAllThreads: threads[i].run.store(0).
killRun ==
    /\ dpc = "kill_run"
    /\ run' = [run EXCEPT ![dloc.i] = FALSE]
    /\ dloc' = [dloc EXCEPT !.i = dloc.i + 1]
    /\ dpc' = "kill_live"
    /\ UNCHANGED <<ctl, running, live, numThreadsRunning, arena, futuresHeap,
                   stats, sortedMoves, pc, loc, ret, ghost, aux, calls>>

\* killAllThreads joins every worker (numThreadsAlive is never incremented,
\* so its wait loop falls through); then the rest of init: the threads array
\* is freed and calloc'ed, the arena reallocated, the workers spawned.
initFinish ==
    /\ dpc = "kill_join"
    /\ \A i \in Workers : i < numThreads => pc[i] = "exited"
    /\ numThreads' = dloc.tc
    /\ numSeedReps' = dloc.sr
    /\ futuresHeap' = [t \in Threads |-> <<>>]
    /\ run' = [t \in Threads |-> FALSE]
    /\ running' = [t \in Threads |-> FALSE]
    /\ live' = [t \in Threads |-> t >= 1 /\ t < dloc.tc]
    /\ pc' = [t \in Threads |-> IF t >= 1 /\ t < dloc.tc THEN "top" ELSE "none"]
    /\ loc' = [t \in Threads |-> ZeroLoc]
    /\ numNodes' = 0
    /\ nodeCap' = dloc.tn
    /\ globalMoveLength' = 0
    /\ globalMoveCap' = dloc.tm
    /\ initComplete' = TRUE
    /\ ret' = [op |-> "init", ok |-> TRUE,
               args |-> <<dloc.tn, dloc.tm, dloc.tc, dloc.sr>>]
    /\ dpc' = "idle"
    /\ dloc' = ZeroDloc
    /\ UNCHANGED <<setupComplete, cmd, numThreadsRunning, nodes, stats,
                   sortedMoves, ghost, aux, calls>>

\* ------------------------------------------------------------------------
\* The expansion engine, run by thread t (0 while seeding, else a worker)
\* ------------------------------------------------------------------------
\* Thread t is inside examineNextPosition.
InExpansion(t) == pc[t] \in {"pop", "child", "bt_read", "bt_store"}

\* Where thread t continues when examineNextPosition returns rv.
NextPc(t, rv) ==
    IF t = 0
    THEN (IF rv THEN "reps_ret" ELSE "reps_top")
    ELSE (IF rv THEN "top" ELSE "inf_top")

NextLoc(t, rv) ==
    IF t = 0 /\ ~rv THEN [ZeroLoc EXCEPT !.reps = loc[t].reps + 1] ELSE ZeroLoc

\* examineNextPosition up to the publication of the child slice; an empty
\* queue ends evaluatePositionInfinite / evaluatePositionReps instead.
xPop(t) ==
    /\ pc[t] = "pop"
    /\ IF futuresHeap[t] = <<>>
       THEN /\ pc' = [pc EXCEPT ![t] = NextPc(t, TRUE)]
            /\ loc' = [loc EXCEPT ![t] = ZeroLoc]
            /\ UNCHANGED <<arena, futuresHeap, stats, ghost>>
       ELSE LET r == getFirstFuture(futuresHeap[t], Scores(nodes))
                index == r.o
                nc == nodes[index].numMoves
                l == numNodes
            IN /\ futuresHeap' = [futuresHeap EXCEPT ![t] = r.heap]
               /\ calcNumNodesExamined' = calcNumNodesExamined + 1
               /\ numNodes' = numNodes + nc
               /\ popped' = popped \cup {index}
               /\ dupPop' = (dupPop \/ index \in popped)
               /\ actedAfterFail' = (actedAfterFail \/ t \in failedBy)
               /\ IF l >= nodeCap
                  THEN /\ failedBy' = failedBy \cup {t}
                       /\ pc' = [pc EXCEPT ![t] = NextPc(t, TRUE)]
                       /\ loc' = [loc EXCEPT ![t] = ZeroLoc]
                       /\ UNCHANGED <<nodes, calcNumNodesAdded, expandedBy>>
                  ELSE /\ calcNumNodesAdded' = calcNumNodesAdded + nc
                       /\ expandedBy' = [expandedBy EXCEPT ![index] = t]
                       /\ nodes' = [nodes EXCEPT ![index].numChildren = nc,
                                                 ![index].childStartIndex = l]
                       /\ loc' = [loc EXCEPT ![t] =
                                    [loc[t] EXCEPT !.index = index, !.l = l,
                                                   !.nc = nc, !.i = 0,
                                                   !.bn = index]]
                       /\ pc' = [pc EXCEPT ![t] =
                                    IF nc = 0 THEN "bt_read" ELSE "child"]
                       /\ UNCHANGED failedBy
               /\ UNCHANGED <<nodeCap, globalMoveCap, globalMoveLength,
                              calcNumMovesAdded, found>>
    /\ UNCHANGED <<ctl, flags, numThreadsRunning, sortedMoves, dpc, dloc, ret,
                   stragglers, aux, calls>>

\* A child node that takes its parent's score without adding DEPTH_STEP.
newNSameScore(ns, index) ==
    [parentIndex |-> index, numChildren |-> 0,
     childStartIndex |-> UNDEFINED, numMoves |-> 0,
     moveStartIndex |-> 0, e |-> 0,
     score |-> ns[index].score,
     PLAYER_TURN |-> 1 - ns[index].PLAYER_TURN, GAME_STATE |-> NORMAL]

\* The node examineNextPosition writes for a child of node index of arena
\* ns, before examineAllSemilegalMoves runs on it.
newN(ns, index) ==
    [parentIndex |-> index, numChildren |-> 0,
     childStartIndex |-> UNDEFINED, numMoves |-> 0,
     moveStartIndex |-> 0, e |-> 0,
     score |-> ns[index].score + DEPTH_STEP,
     PLAYER_TURN |-> 1 - ns[index].PLAYER_TURN, GAME_STATE |-> NORMAL]

\* One iteration of the child loop of examineNextPosition: the new node is
\* written and examineAllSemilegalMoves runs on it.
xChild(t) ==
    /\ pc[t] = "child"
    /\ LET L == loc[t]
           c == L.l + L.i
           ns1 == [nodes EXCEPT ![c] = newN(nodes, L.index)]
       IN \E g \in GenInputs(ns1[c].score) :
            LET r == examineAllSemilegalMoves(ns1, globalMoveLength,
                        globalMoveCap, calcNumMovesAdded, futuresHeap[t], c, g)
            IN /\ nodes' = r.nodes
               /\ globalMoveLength' = r.gml
               /\ calcNumMovesAdded' = r.cma
               /\ futuresHeap' = [futuresHeap EXCEPT ![t] = r.heap]
               /\ IF r.full
                  THEN /\ failedBy' = failedBy \cup {t}
                       /\ pc' = [pc EXCEPT ![t] = NextPc(t, TRUE)]
                       /\ loc' = [loc EXCEPT ![t] = ZeroLoc]
                  ELSE /\ UNCHANGED failedBy
                       /\ loc' = [loc EXCEPT ![t].i = L.i + 1]
                       /\ pc' = [pc EXCEPT ![t] =
                                    IF L.i + 1 < L.nc THEN "child" ELSE "bt_read"]
    /\ UNCHANGED <<ctl, flags, numThreadsRunning, nodeCap, numNodes,
                   globalMoveCap, calcNumNodesAdded, calcNumNodesExamined,
                   found, sortedMoves, dpc, dloc, ret, popped, dupPop,
                   actedAfterFail, stragglers, expandedBy, aux, calls>>

\* evalBacktrack at node bn: the loads of the old eval and of the children's
\* evals, and the test that ends the walk when nothing changed.
xBtRead(t) ==
    /\ pc[t] = "bt_read"
    /\ LET n == loc[t].bn
           e == backtrackEval(nodes, n)
       IN IF nodes[n].e = e
          THEN /\ pc' = [pc EXCEPT ![t] = NextPc(t, FALSE)]
               /\ loc' = [loc EXCEPT ![t] = NextLoc(t, FALSE)]
          ELSE /\ pc' = [pc EXCEPT ![t] = "bt_store"]
               /\ loc' = [loc EXCEPT ![t].be = e]
    /\ UNCHANGED <<ctl, flags, numThreadsRunning, arena, futuresHeap, stats,
                   sortedMoves, dpc, dloc, ret, ghost, aux, calls>>

\* evalBacktrack at node bn: the store of the new eval and the step to the
\* parent (or the end at the root).
xBtStore(t) ==
    /\ pc[t] = "bt_store"
    /\ LET n == loc[t].bn
       IN /\ nodes' = [nodes EXCEPT ![n].e = loc[t].be]
          /\ IF n = 0
             THEN /\ pc' = [pc EXCEPT ![t] = NextPc(t, FALSE)]
                  /\ loc' = [loc EXCEPT ![t] = NextLoc(t, FALSE)]
             ELSE /\ pc' = [pc EXCEPT ![t] = "bt_read"]
                  /\ loc' = [loc EXCEPT ![t].bn = nodes[n].parentIndex,
                                        ![t].be = 0]
    /\ UNCHANGED <<ctl, flags, numThreadsRunning, nodeCap, numNodes,
                   globalMoveCap, globalMoveLength, futuresHeap, stats,
                   sortedMoves, dpc, dloc, ret, ghost, aux, calls>>

\* ------------------------------------------------------------------------
\* setupEvaluation (multithread = 1, as _setupEvaluation calls it)
\* ------------------------------------------------------------------------
\* Side to move of the input position.
Positions == {WHITE, BLACK}

RootNode(turn) ==
    [parentIndex |-> UNDEFINED, numChildren |-> 0,
     childStartIndex |-> UNDEFINED, numMoves |-> UNDEFINED,
     moveStartIndex |-> UNDEFINED, e |-> 0, score |-> ROOT_SCORE,
     PLAYER_TURN |-> turn, GAME_STATE |-> NORMAL]

\* _setupEvaluation(d1, position) for a position with descriptor d: the
\* depth limit and the position are stored, then setupEvaluation runs up to
\* threads->run.store(1): clearDataLight, the root at nodes[0],
\* examineAllSemilegalMoves(threads, 0).
setupCall(d) ==
    /\ dpc = "idle"
    /\ NextCall("setup", <<>>)
    /\ calls' = calls + 1
    /\ evaluationDepthLimit' = aux.depth
    /\ analysisD' = d
    /\ IF ~initComplete
       THEN /\ ret' = [op |-> "setup", ok |-> FALSE, args |-> <<>>]
            /\ UNCHANGED <<run, arena, futuresHeap, stats, dpc, pc, loc, ghost>>
       ELSE \E g \in GenInputs(ROOT_SCORE) :
            LET ns1 == [nodes EXCEPT ![0] = RootNode(d.PLAYER_TURN)]
                r == examineAllSemilegalMoves(ns1, 0, globalMoveCap, 0, <<>>, 0, g)
            IN /\ numNodes' = 1
               /\ calcNumNodesAdded' = 1
               /\ calcNumNodesExamined' = 0
               /\ calcNumWhiteWinsFound' = 0
               /\ calcNumBlackWinsFound' = 0
               /\ calcNumStalematesFound' = 0
               /\ calcNumNormalsFound' = 0
               /\ nodes' = r.nodes
               /\ globalMoveLength' = r.gml
               /\ calcNumMovesAdded' = r.cma
               /\ futuresHeap' = [t \in Threads |->
                                     IF t < numThreads
                                     THEN (IF t = 0 THEN r.heap ELSE <<>>)
                                     ELSE futuresHeap[t]]
               /\ run' = [run EXCEPT ![0] = TRUE]
               /\ pc' = [pc EXCEPT ![0] = "reps_top"]
               /\ loc' = [loc EXCEPT ![0] = ZeroLoc]
               /\ dpc' = "seeding"
               /\ popped' = {}
               /\ dupPop' = FALSE
               /\ expandedBy' = [k \in NodeIdx |-> -1]
               /\ failedBy' = IF r.full THEN {0} ELSE {}
               /\ actedAfterFail' = FALSE
               /\ UNCHANGED <<nodeCap, globalMoveCap, ret>>
    /\ UNCHANGED <<initComplete, setupComplete, numThreads, numSeedReps,
                   running, live, numThreadsRunning, sortedMoves, dloc,
                   stragglers, aux>>

\* The loop head of evaluatePositionReps on thread 0.
repsTop ==
    /\ pc[0] = "reps_top"
    /\ pc' = [pc EXCEPT ![0] =
                 IF ~run[0] \/ futuresHeap[0] = <<>> \/ loc[0].reps >= numSeedReps
                 THEN "reps_ret" ELSE "pop"]
    /\ UNCHANGED <<ctl, flags, numThreadsRunning, arena, futuresHeap, stats,
                   sortedMoves, dpc, dloc, loc, ret, ghost, aux, calls>>

\* evaluatePositionReps has returned: threads->run.store(0).
seedDone ==
    /\ dpc = "seeding"
    /\ pc[0] = "reps_ret"
    /\ run' = [run EXCEPT ![0] = FALSE]
    /\ pc' = [pc EXCEPT ![0] = "none"]
    /\ loc' = [loc EXCEPT ![0] = ZeroLoc]
    /\ dpc' = "distribute"
    /\ dloc' = [ZeroDloc EXCEPT !.i = 1, !.op = "setup"]
    /\ UNCHANGED <<ctl, running, live, numThreadsRunning, arena, futuresHeap,
                   stats, sortedMoves, ret, ghost, aux, calls>>

\* A distribution loop that never advances its worker index: every queued
\* index goes to worker 1.
distributeToFirst ==
    /\ dpc = "distribute"
    /\ IF futuresHeap[0] # <<>>
       THEN LET r == getFirstFuture(futuresHeap[0], Scores(nodes))
                i == dloc.i
            IN /\ futuresHeap' = [futuresHeap EXCEPT
                                    ![0] = r.heap,
                                    ![i] = addFutureQueue(futuresHeap[i], r.o,
                                                          Scores(nodes))]
               /\ calcNumNodesExamined' = calcNumNodesExamined + 1
               /\ UNCHANGED <<setupComplete, dpc, ret, dloc>>
       ELSE /\ setupComplete' = TRUE
            /\ ret' = [op |-> "setup", ok |-> TRUE, args |-> <<>>]
            /\ dpc' = "idle"
            /\ dloc' = ZeroDloc
            /\ UNCHANGED <<futuresHeap, calcNumNodesExamined>>
    /\ UNCHANGED <<initComplete, numThreads, numSeedReps, cmd, flags,
                   numThreadsRunning, arena, calcNumNodesAdded,
                   calcNumMovesAdded, found, sortedMoves, pc, loc, ghost, aux,
                   calls>>

\* One iteration of the distribution loop, or its end and setupComplete = 1.
distribute ==
    /\ dpc = "distribute"
    /\ IF futuresHeap[0] # <<>>
       THEN LET r == getFirstFuture(futuresHeap[0], Scores(nodes))
                i == dloc.i
            IN /\ futuresHeap' = [futuresHeap EXCEPT
                                    ![0] = r.heap,
                                    ![i] = addFutureQueue(futuresHeap[i], r.o,
                                                          Scores(nodes))]
               /\ calcNumNodesExamined' = calcNumNodesExamined + 1
               /\ dloc' = [dloc EXCEPT !.i = (i % (numThreads - 1)) + 1]
               /\ UNCHANGED <<setupComplete, dpc, ret>>
       ELSE /\ setupComplete' = TRUE
            /\ ret' = [op |-> "setup", ok |-> TRUE, args |-> <<>>]
            /\ dpc' = "idle"
            /\ dloc' = ZeroDloc
            /\ UNCHANGED <<futuresHeap, calcNumNodesExamined>>
    /\ UNCHANGED <<initComplete, numThreads, numSeedReps, cmd, flags,
                   numThreadsRunning, arena, calcNumNodesAdded,
                   calcNumMovesAdded, found, sortedMoves, pc, loc, ghost, aux,
                   calls>>

\* ------------------------------------------------------------------------
\* evaluateStart, evaluateStop, evaluateTime
\* ------------------------------------------------------------------------
\* evaluateStart (op = "start") or evaluateTime (op = "time") up to
\* numThreadsRunning.store(numThreads - 1).
startCall(op) ==
    /\ dpc = "idle"
    /\ NextCall(op, <<>>)
    /\ calls' = calls + 1
    /\ IF ~setupComplete
       THEN /\ ret' = [op |-> op, ok |-> FALSE, args |-> <<>>]
            /\ UNCHANGED <<numThreadsRunning, dpc, dloc>>
       ELSE /\ numThreadsRunning' = numThreads - 1
            /\ dpc' = "start_run"
            /\ dloc' = [ZeroDloc EXCEPT !.i = 1, !.op = op]
            /\ UNCHANGED ret
    /\ UNCHANGED <<ctl, flags, arena, futuresHeap, stats, sortedMoves, pc, loc,
                   ghost, aux>>

\* threads[i].run.store(1), or the end of the loop of evaluateStart.
startRun ==
    /\ dpc = "start_run"
    /\ IF dloc.i < numThreads
       THEN /\ run' = [run EXCEPT ![dloc.i] = TRUE]
            /\ dpc' = "start_running"
            /\ UNCHANGED <<ret, dloc>>
       ELSE IF dloc.op = "time"
            THEN /\ dpc' = "stop_run"
                 /\ dloc' = [dloc EXCEPT !.i = 1]
                 /\ UNCHANGED <<run, ret>>
            ELSE /\ ret' = [op |-> "start", ok |-> TRUE, args |-> <<>>]
                 /\ dpc' = "idle"
                 /\ dloc' = ZeroDloc
                 /\ UNCHANGED run
    /\ UNCHANGED <<ctl, running, live, numThreadsRunning, arena, futuresHeap,
                   stats, sortedMoves, pc, loc, ghost, aux, calls>>

\* threads[i].running.store(1).
startRunning ==
    /\ dpc = "start_running"
    /\ running' = [running EXCEPT ![dloc.i] = TRUE]
    /\ dloc' = [dloc EXCEPT !.i = dloc.i + 1]
    /\ dpc' = "start_run"
    /\ UNCHANGED <<ctl, run, live, numThreadsRunning, arena, futuresHeap,
                   stats, sortedMoves, pc, loc, ret, ghost, aux, calls>>

\* evaluateStop is entered.
stopCall ==
    /\ dpc = "idle"
    /\ NextCall("stop", <<>>)
    /\ calls' = calls + 1
    /\ dpc' = "stop_run"
    /\ dloc' = [ZeroDloc EXCEPT !.i = 1, !.op = "stop"]
    /\ UNCHANGED <<ctl, flags, numThreadsRunning, arena, futuresHeap, stats,
                   sortedMoves, pc, loc, ret, ghost, aux>>

\* threads[i].run.store(0), or the end of the first loop of evaluateStop.
stopRun ==
    /\ dpc = "stop_run"
    /\ IF dloc.i < numThreads
       THEN /\ run' = [run EXCEPT ![dloc.i] = FALSE]
            /\ dloc' = [dloc EXCEPT !.i = dloc.i + 1]
            /\ UNCHANGED dpc
       ELSE /\ dpc' = "stop_wait"
            /\ UNCHANGED <<run, dloc>>
    /\ UNCHANGED <<ctl, running, live, numThreadsRunning, arena, futuresHeap,
                   stats, sortedMoves, pc, loc, ret, ghost, aux, calls>>

\* The spin on numThreadsRunning is left, getSortedChoices runs and
\* evaluateStop (or evaluateTime) returns. Before the first init nodes is a
\* null pointer and getSortedChoices dereferences it.
stopWait ==
    /\ dpc = "stop_wait"
    /\ numThreadsRunning = 0
    /\ stragglers' = {i \in Workers : InExpansion(i)}
    /\ IF ~initComplete
       THEN /\ dpc' = "crashed"
            /\ UNCHANGED <<sortedMoves, ret, dloc>>
       ELSE /\ sortedMoves' = getSortedChoices(nodes)
            /\ ret' = [op |-> dloc.op, ok |-> TRUE, args |-> <<>>]
            /\ dpc' = "idle"
            /\ dloc' = ZeroDloc
    /\ UNCHANGED <<ctl, flags, numThreadsRunning, arena, futuresHeap, stats,
                   pc, loc, popped, dupPop, failedBy, actedAfterFail, expandedBy,
                   aux, calls>>

\* ------------------------------------------------------------------------
\* runThread(id) and evaluatePositionInfinite
\* ------------------------------------------------------------------------
wFrame == <<ctl, arena, futuresHeap, stats, sortedMoves, dpc, dloc, loc, ret,
            ghost, aux, calls>>

\* if (!threads[id].live.load()) break;
wTop(i) ==
    /\ pc[i] = "top"
    /\ pc' = [pc EXCEPT ![i] = IF live[i] THEN "chk_run" ELSE "exited"]
    /\ UNCHANGED <<wFrame, flags, numThreadsRunning>>

\* if (threads[id].run.load())
wChkRun(i) ==
    /\ pc[i] = "chk_run"
    /\ pc' = [pc EXCEPT ![i] = IF run[i] THEN "inf_top" ELSE "chk_running"]
    /\ UNCHANGED <<wFrame, flags, numThreadsRunning>>

\* if (threads[id].running.load())
wChkRunning(i) ==
    /\ pc[i] = "chk_running"
    /\ pc' = [pc EXCEPT ![i] = IF running[i] THEN "st_running" ELSE "top"]
    /\ UNCHANGED <<wFrame, flags, numThreadsRunning>>

\* threads[id].running.store(0);
wStoreRunning(i) ==
    /\ pc[i] = "st_running"
    /\ running' = [running EXCEPT ![i] = FALSE]
    /\ pc' = [pc EXCEPT ![i] = "dec"]
    /\ UNCHANGED <<wFrame, run, live, numThreadsRunning>>

\* numThreadsRunning.fetch_add(-1);
wDecrement(i) ==
    /\ pc[i] = "dec"
    /\ numThreadsRunning' = numThreadsRunning - 1
    /\ pc' = [pc EXCEPT ![i] = "top"]
    /\ UNCHANGED <<wFrame, flags>>

\* The loop head of evaluatePositionInfinite: if (!(t->run.load())) return 0;
wInfTop(i) ==
    /\ pc[i] = "inf_top"
    /\ pc' = [pc EXCEPT ![i] = IF run[i] THEN "pop" ELSE "top"]
    /\ UNCHANGED <<wFrame, flags, numThreadsRunning>>

runThread(i) ==
    \/ wTop(i)
    \/ wChkRun(i)
    \/ wChkRunning(i)
    \/ wStoreRunning(i)
    \/ wDecrement(i)
    \/ wInfTop(i)

examineNextPosition(t) ==
    \/ xPop(t)
    \/ xChild(t)
    \/ xBtRead(t)
    \/ xBtStore(t)

\* ------------------------------------------------------------------------
\* Board and rules: piece codes, move application, move generation
\* ------------------------------------------------------------------------
EMPTY == -1
wPAWN == 0
wKNIGHT == 1
wBISHOP == 2
wROOK == 3
wQUEEN == 4
wKING == 5
bPAWN == 6
bKNIGHT == 7
bBISHOP == 8
bROOK == 9
bQUEEN == 10
bKING == 11

\* The bytes a char index 0..127 can address from cb: the 64 squares of the
\* board and the 64 bytes of the thread structure that follow them.
Squares == 0 .. 63
Mem == 0 .. 127

\* C integer division (truncation toward zero).
CDiv(a, b) == IF a >= 0 THEN a \div b ELSE -((-a) \div b)

ifWhite(b, x) == b[x] >= 0 /\ b[x] <= 5
ifBlack(b, x) == b[x] >= 6 /\ b[x] <= 11
ifNonWhite(b, x) == b[x] < 0 \/ b[x] > 5
ifNonBlack(b, x) == b[x] < 6 \/ b[x] > 11

\* The move record examineAllSemilegalMoves fills from a node's SQUARE_FROM
\* and SQUARE_TO.
MoveOf(from, to) ==
    [f |-> from, t |-> to,
     tt |-> IF to < 64 THEN to ELSE IF to < 96 THEN 56 + (to % 8) ELSE to % 8,
     promotion |-> IF to < 64 THEN -1
                   ELSE IF to < 96 THEN (to \div 8) - 7 ELSE (to \div 8) - 5]

\* playMove(b, n, move): the board after the move and the en passant square.
playMove(b, move) ==
    LET from == move.f
        to == move.t
        p == b[from]
        q == b[to]
        b1 == [[b EXCEPT ![to] = p] EXCEPT ![from] = EMPTY]
    IN IF p = wPAWN
       THEN IF move.promotion > -1
            THEN [b |-> [b1 EXCEPT ![to] = move.promotion], eps |-> -1]
            ELSE IF from % 8 # to % 8 /\ q = EMPTY
                 THEN [b |-> [b1 EXCEPT ![to - 8] = EMPTY], eps |-> to - 8]
                 ELSE [b |-> b1, eps |-> -1]
       ELSE IF p = bPAWN
       THEN IF move.promotion > -1
            THEN [b |-> [b1 EXCEPT ![to] = move.promotion], eps |-> -1]
            ELSE IF from % 8 # to % 8 /\ q = EMPTY
                 THEN [b |-> [b1 EXCEPT ![to + 8] = EMPTY], eps |-> to + 8]
                 ELSE [b |-> b1, eps |-> -1]
       ELSE IF p = wKING
       THEN IF from = 4 /\ to = 6
            THEN [b |-> [b1 EXCEPT ![5] = wROOK, ![7] = EMPTY], eps |-> -1]
            ELSE IF from = 4 /\ to = 2
                 THEN [b |-> [b1 EXCEPT ![3] = wROOK, ![0] = EMPTY], eps |-> -1]
                 ELSE [b |-> b1, eps |-> -1]
       ELSE IF p = bKING
       THEN IF from = 60 /\ to = 62
            THEN [b |-> [b1 EXCEPT ![61] = bROOK, ![63] = EMPTY], eps |-> -1]
            ELSE IF from = 60 /\ to = 58
                 THEN [b |-> [b1 EXCEPT ![59] = bROOK, ![56] = EMPTY], eps |-> -1]
                 ELSE [b |-> b1, eps |-> -1]
       ELSE [b |-> b1, eps |-> -1]

\* playMoveUpdating(b, n): the board, the node's state fields and the en
\* passant square after the move n.SQUARE_FROM -> n.SQUARE_TO.
playMoveUpdating(b, n) ==
    LET from == n.SQUARE_FROM
        raw == n.SQUARE_TO
        promotion == CDiv(raw - 64, 8)
        to == IF raw >= 96 THEN raw % 8
              ELSE IF raw >= 64 THEN 56 + (raw % 8) ELSE raw
        rf == from \div 8
        cf == from % 8
        rt == to \div 8
        ct == to % 8
        p == b[from]
        q == b[to]
        capture == q # EMPTY
        fifty == IF capture THEN 0
                 ELSE IF n.FIFTY_MOVE_COUNTER < 100
                      THEN n.FIFTY_MOVE_COUNTER + 1 ELSE n.FIFTY_MOVE_COUNTER
        n1 == [n EXCEPT !.FIFTY_MOVE_COUNTER = fifty, !.EN_PASSANT_FILE = -1]
        np == [n1 EXCEPT !.FIFTY_MOVE_COUNTER = 0]
        b1 == [[b EXCEPT ![to] = p] EXCEPT ![from] = EMPTY]
    IN IF p = wPAWN
       THEN IF rf = 1 /\ rt = 3
            THEN [b |-> b1, n |-> [np EXCEPT !.EN_PASSANT_FILE = ct], eps |-> -1]
            ELSE IF promotion > -1
                 THEN [b |-> [b1 EXCEPT ![to] = promotion + 1], n |-> np,
                       eps |-> -1]
                 ELSE IF rf = 4 /\ ~capture /\ cf # ct
                      THEN [b |-> [b1 EXCEPT ![to - 8] = EMPTY], n |-> np,
                            eps |-> to - 8]
                      ELSE [b |-> b1, n |-> np, eps |-> -1]
       ELSE IF p = bPAWN
       THEN IF rf = 6 /\ rt = 4
            THEN [b |-> b1, n |-> [np EXCEPT !.EN_PASSANT_FILE = ct], eps |-> -1]
            ELSE IF promotion > -1
                 THEN [b |-> [b1 EXCEPT ![to] = promotion + 3], n |-> np,
                       eps |-> -1]
                 ELSE IF rf = 3 /\ ~capture /\ cf # ct
                      THEN [b |-> [b1 EXCEPT ![to + 8] = EMPTY], n |-> np,
                            eps |-> to + 8]
                      ELSE [b |-> b1, n |-> np, eps |-> -1]
       ELSE IF p = wKING
       THEN LET nk == [n1 EXCEPT !.wKINGSIDE_CASTLE = 0,
                                 !.wQUEENSIDE_CASTLE = 0, !.wKING_SQUARE = to]
            IN IF from = 4 /\ to = 6
               THEN [b |-> [b1 EXCEPT ![5] = wROOK, ![7] = EMPTY], n |-> nk,
                     eps |-> -1]
               ELSE IF from = 4 /\ to = 2
                    THEN [b |-> [b1 EXCEPT ![3] = wROOK, ![0] = EMPTY],
                          n |-> nk, eps |-> -1]
                    ELSE [b |-> b1, n |-> nk, eps |-> -1]
       ELSE IF p = bKING
       THEN LET nk == [n1 EXCEPT !.bKINGSIDE_CASTLE = 0,
                                 !.bQUEENSIDE_CASTLE = 0, !.bKING_SQUARE = to]
            IN IF from = 60 /\ to = 62
               THEN [b |-> [b1 EXCEPT ![61] = bROOK, ![63] = EMPTY], n |-> nk,
                     eps |-> -1]
               ELSE IF from = 60 /\ to = 58
                    THEN [b |-> [b1 EXCEPT ![59] = bROOK, ![56] = EMPTY],
                          n |-> nk, eps |-> -1]
                    ELSE [b |-> b1, n |-> nk, eps |-> -1]
       ELSE IF p = wROOK
       THEN [b |-> b1,
             n |-> IF from = 7 THEN [n1 EXCEPT !.wKINGSIDE_CASTLE = 0]
                   ELSE IF from = 0 THEN [n1 EXCEPT !.wQUEENSIDE_CASTLE = 0]
                        ELSE n1,
             eps |-> -1]
       ELSE IF p = bROOK
       THEN [b |-> b1,
             n |-> IF from = 63 THEN [n1 EXCEPT !.bKINGSIDE_CASTLE = 0]
                   ELSE IF from = 56 THEN [n1 EXCEPT !.bQUEENSIDE_CASTLE = 0]
                        ELSE n1,
             eps |-> -1]
       ELSE [b |-> b1, n |-> n1, eps |-> -1]

\* The scan loops of kingNotInCheck: from X in steps of step while X >= l
\* (Down) or X <= l (Up); an attacker a1 or a2 is met first.
RECURSIVE RayDownThrough(_, _, _, _, _, _)
\* A downward scan that does not stop at the first piece it meets.
RayDownThrough(b, X, l, step, a1, a2) ==
    IF X >= l
    THEN IF b[X] = a1 \/ b[X] = a2 THEN TRUE
         ELSE RayDownThrough(b, X - step, l, step, a1, a2)
    ELSE FALSE

RECURSIVE RayDown(_, _, _, _, _, _)
RayDown(b, X, l, step, a1, a2) ==
    IF X >= l
    THEN IF b[X] = a1 \/ b[X] = a2 THEN TRUE
         ELSE IF b[X] # EMPTY THEN FALSE
              ELSE RayDown(b, X - step, l, step, a1, a2)
    ELSE FALSE

RECURSIVE RayUp(_, _, _, _, _, _)
RayUp(b, X, l, step, a1, a2) ==
    IF X <= l
    THEN IF b[X] = a1 \/ b[X] = a2 THEN TRUE
         ELSE IF b[X] # EMPTY THEN FALSE
              ELSE RayUp(b, X + step, l, step, a1, a2)
    ELSE FALSE

Min(a, b) == IF a < b THEN a ELSE b

kingNotInCheck(b, x, isBlack) ==
    LET r == x \div 8
        c == x % 8
        z == IF isBlack THEN 0 ELSE 6
        pawn == IF isBlack
                THEN \/ (r > 0 /\ c > 0 /\ b[x - 9] = z)
                     \/ (r > 0 /\ c < 7 /\ b[x - 7] = z)
                ELSE \/ (r < 7 /\ c > 0 /\ b[x + 7] = z)
                     \/ (r < 7 /\ c < 7 /\ b[x + 9] = z)
        near == \/ (c > 0 /\ b[x - 1] = z + 5)
                \/ (c < 7 /\ b[x + 1] = z + 5)
                \/ (r > 0 /\ \/ (c > 1 /\ b[x - 10] = z + 1)
                             \/ (c < 6 /\ b[x - 6] = z + 1)
                             \/ (c > 0 /\ b[x - 9] = z + 5)
                             \/ (c < 7 /\ b[x - 7] = z + 5)
                             \/ b[x - 8] = z + 5)
                \/ (r < 7 /\ \/ (c > 1 /\ b[x + 6] = z + 1)
                             \/ (c < 6 /\ b[x + 10] = z + 1)
                             \/ (c > 0 /\ b[x + 7] = z + 5)
                             \/ (c < 7 /\ b[x + 9] = z + 5)
                             \/ b[x + 8] = z + 5)
                \/ (r > 1 /\ \/ (c > 0 /\ b[x - 17] = z + 1)
                             \/ (c < 7 /\ b[x - 15] = z + 1))
                \/ (r < 6 /\ \/ (c > 0 /\ b[x + 15] = z + 1)
                             \/ (c < 7 /\ b[x + 17] = z + 1))
        diag == \/ RayDown(b, x - 9, x - 9 * Min(r, c), 9, z + 2, z + 4)
                \/ RayDown(b, x - 7, x - 7 * Min(r, 7 - c), 7, z + 2, z + 4)
                \/ RayUp(b, x + 9, x + 9 * Min(7 - r, 7 - c), 9, z + 2, z + 4)
                \/ RayUp(b, x + 7, x + 7 * Min(7 - r, c), 7, z + 2, z + 4)
        orth == \/ RayDown(b, x - 8, 0, 8, z + 3, z + 4)
                \/ RayUp(b, x + 8, 63, 8, z + 3, z + 4)
                \/ RayDown(b, x - 1, (x \div 8) * 8, 1, z + 3, z + 4)
                \/ RayUp(b, x + 1, (x \div 8) * 8 + 7, 1, z + 3, z + 4)
    IN ~(pawn \/ near \/ diag \/ orth)

\* A white pawn generator that offers the en passant capture on the fifth
\* rank whatever the en passant file is.
examineWhitePawnAnyFile(b, x, epf) ==
    LET r == x \div 8
        c == x % 8
    IN IF r = 6
       THEN (IF b[56 + c] = EMPTY
             THEN {64 + c, 72 + c, 80 + c, 88 + c} ELSE {})
            \cup (IF c > 0 /\ ifBlack(b, 55 + c)
                  THEN {63 + c, 71 + c, 79 + c, 87 + c} ELSE {})
            \cup (IF c < 7 /\ ifBlack(b, 56 + c)
                  THEN {65 + c, 73 + c, 81 + c, 89 + c} ELSE {})
       ELSE IF r < 6
            THEN (IF b[x + 8] = EMPTY
                  THEN {x + 8} \cup (IF r = 1 /\ b[x + 16] = EMPTY
                                     THEN {x + 16} ELSE {})
                  ELSE {})
                 \cup (IF c > 0 /\ (ifBlack(b, x + 7) \/ r = 4)
                       THEN {x + 7} ELSE {})
                 \cup (IF c < 7 /\ (ifBlack(b, x + 9) \/ r = 4)
                       THEN {x + 9} ELSE {})
            ELSE {}

\* The destinations (SQUARE_TO codes) each generator passes to examineMove.
examineWhitePawn(b, x, epf) ==
    LET r == x \div 8
        c == x % 8
    IN IF r = 6
       THEN (IF b[56 + c] = EMPTY
             THEN {64 + c, 72 + c, 80 + c, 88 + c} ELSE {})
            \cup (IF c > 0 /\ ifBlack(b, 55 + c)
                  THEN {63 + c, 71 + c, 79 + c, 87 + c} ELSE {})
            \cup (IF c < 7 /\ ifBlack(b, 56 + c)
                  THEN {65 + c, 73 + c, 81 + c, 89 + c} ELSE {})
       ELSE IF r < 6
            THEN (IF b[x + 8] = EMPTY
                  THEN {x + 8} \cup (IF r = 1 /\ b[x + 16] = EMPTY
                                     THEN {x + 16} ELSE {})
                  ELSE {})
                 \cup (IF c > 0 /\ (ifBlack(b, x + 7) \/ (epf = c - 1 /\ r = 4))
                       THEN {x + 7} ELSE {})
                 \cup (IF c < 7 /\ (ifBlack(b, x + 9) \/ (epf = c + 1 /\ r = 4))
                       THEN {x + 9} ELSE {})
            ELSE {}

examineBlackPawn(b, x, epf) ==
    LET r == x \div 8
        c == x % 8
    IN IF r = 1
       THEN (IF b[0 + c] = EMPTY
             THEN {96 + c, 104 + c, 112 + c, 120 + c} ELSE {})
            \cup (IF c > 0 /\ ifWhite(b, c - 1)
                  THEN {95 + c, 103 + c, 111 + c, 119 + c} ELSE {})
            \cup (IF c < 7 /\ ifWhite(b, 1 + c)
                  THEN {97 + c, 105 + c, 113 + c, 121 + c} ELSE {})
       ELSE IF r > 1
            THEN (IF b[x - 8] = EMPTY
                  THEN {x - 8} \cup (IF r = 6 /\ b[x - 16] = EMPTY
                                     THEN {x - 16} ELSE {})
                  ELSE {})
                 \cup (IF c > 0 /\ (ifWhite(b, x - 9) \/ (epf = c - 1 /\ r = 3))
                       THEN {x - 9} ELSE {})
                 \cup (IF c < 7 /\ (ifWhite(b, x - 7) \/ (epf = c + 1 /\ r = 3))
                       THEN {x - 7} ELSE {})
            ELSE {}

\* The eight king steps of examineWhiteKing (white = TRUE) and of
\* examineBlackKing.
KingSteps(b, x, white) ==
    LET r == x \div 8
        c == x % 8
        ok(y) == IF white THEN ifNonWhite(b, y) ELSE ifNonBlack(b, y)
    IN {y \in {x - 8, x - 9, x - 7, x + 8, x + 7, x + 9, x - 1, x + 1} :
          /\ (y \in {x - 8, x - 9, x - 7} => r > 0)
          /\ (y \in {x + 8, x + 7, x + 9} => r < 7)
          /\ (y \in {x - 9, x + 7, x - 1} => c > 0)
          /\ (y \in {x - 7, x + 9, x + 1} => c < 7)
          /\ ok(y)}

examineWhiteKing(b, x) == KingSteps(b, x, TRUE)

examineBlackKing(b, x) == KingSteps(b, x, FALSE)

\* A castling generator that moves the king to the destination without
\* testing the destination square.
CastleNoDestTest(b, x, k, between, corner, rook, king, transit, dest, isBlack) ==
    IF /\ x = k
       /\ \A s \in between : b[s] = EMPTY
       /\ b[corner] = rook
       /\ kingNotInCheck(b, k, isBlack)
       /\ kingNotInCheck([b EXCEPT ![k] = EMPTY, ![transit] = king],
                         transit, isBlack)
    THEN {dest} ELSE {}

\* The castling generators: king on its home square k, the squares of
\* between empty, the rook on its corner, and the king not attacked on k, on
\* the transit square and on the destination.
Castle(b, x, k, between, corner, rook, king, transit, dest, isBlack) ==
    IF /\ x = k
       /\ \A s \in between : b[s] = EMPTY
       /\ b[corner] = rook
       /\ kingNotInCheck(b, k, isBlack)
       /\ kingNotInCheck([b EXCEPT ![k] = EMPTY, ![transit] = king],
                         transit, isBlack)
       /\ kingNotInCheck([b EXCEPT ![k] = EMPTY, ![dest] = king], dest, isBlack)
    THEN {dest} ELSE {}

examineWK(b, x) == Castle(b, x, 4, {5, 6}, 7, wROOK, wKING, 5, 6, FALSE)
examineWQ(b, x) == Castle(b, x, 4, {3, 2, 1}, 0, wROOK, wKING, 3, 2, FALSE)
examineBK(b, x) == Castle(b, x, 60, {61, 62}, 63, bROOK, bKING, 61, 62, TRUE)
examineBQ(b, x) == Castle(b, x, 60, {59, 58, 57}, 56, bROOK, bKING, 59, 58, TRUE)

\* The scratch board a castling generator leaves: once the guard and the
\* test of the source square pass, it ends by writing the king to k and
\* EMPTY to the transit and destination squares.
CastleScratch(b, x, k, between, corner, rook, king, transit, dest, isBlack) ==
    IF /\ x = k
       /\ \A s \in between : b[s] = EMPTY
       /\ b[corner] = rook
       /\ kingNotInCheck(b, k, isBlack)
    THEN [b EXCEPT ![k] = king, ![transit] = EMPTY, ![dest] = EMPTY]
    ELSE b

\* The scratch board after examineAllSemilegalMoves has run the castling
\* generators of the side to move for its king on x.
CastlingScratch(b, n, x) ==
    IF n.PLAYER_TURN = WHITE
    THEN LET b1 == IF n.wKINGSIDE_CASTLE # 0
                   THEN CastleScratch(b, x, 4, {5, 6}, 7, wROOK, wKING, 5, 6, FALSE)
                   ELSE b
         IN IF n.wQUEENSIDE_CASTLE # 0
            THEN CastleScratch(b1, x, 4, {3, 2, 1}, 0, wROOK, wKING, 3, 2, FALSE)
            ELSE b1
    ELSE LET b1 == IF n.bKINGSIDE_CASTLE # 0
                   THEN CastleScratch(b, x, 60, {61, 62}, 63, bROOK, bKING,
                                      61, 62, TRUE)
                   ELSE b
         IN IF n.bQUEENSIDE_CASTLE # 0
            THEN CastleScratch(b1, x, 60, {59, 58, 57}, 56, bROOK, bKING,
                               59, 58, TRUE)
            ELSE b1

\* The moves examineAllSemilegalMoves generates for the pawns and the king
\* of the side to move, as <<from, to>>.
PawnKingMoves(b, n) ==
    UNION {
        LET tos == IF n.PLAYER_TURN = WHITE
                   THEN IF b[x] = wPAWN
                        THEN examineWhitePawn(b, x, n.EN_PASSANT_FILE)
                        ELSE IF b[x] = wKING
                             THEN examineWhiteKing(b, x)
                                  \cup (IF n.wKINGSIDE_CASTLE # 0
                                        THEN examineWK(b, x) ELSE {})
                                  \cup (IF n.wQUEENSIDE_CASTLE # 0
                                        THEN examineWQ(b, x) ELSE {})
                             ELSE {}
                   ELSE IF b[x] = bPAWN
                        THEN examineBlackPawn(b, x, n.EN_PASSANT_FILE)
                        ELSE IF b[x] = bKING
                             THEN examineBlackKing(b, x)
                                  \cup (IF n.bKINGSIDE_CASTLE # 0
                                        THEN examineBK(b, x) ELSE {})
                                  \cup (IF n.bQUEENSIDE_CASTLE # 0
                                        THEN examineBQ(b, x) ELSE {})
                             ELSE {}
        IN {<<x, to>> : to \in tos} : x \in Squares}

\* The state fields examineNextPosition gives the child reached by the move
\* from -> to of node n.
ChildNode(n, from, to) ==
    [n EXCEPT !.EN_PASSANT_FILE = -1,
              !.FIFTY_MOVE_COUNTER = n.FIFTY_MOVE_COUNTER + 1,
              !.SQUARE_FROM = from, !.SQUARE_TO = to,
              !.PLAYER_TURN = 1 - n.PLAYER_TURN]

RECURSIVE ReplayAncestors(_, _, _)
\* The loop of examineAllSemilegalMoves that plays the ancestors' moves:
\* path[i] for i up to Len(path) - 1, in root-to-leaf order.
ReplayAncestors(b, path, i) ==
    IF i < Len(path)
    THEN ReplayAncestors(playMove(b, path[i]).b, path, i + 1)
    ELSE b

\* The board and the node after the reconstruction in
\* examineAllSemilegalMoves for the node n at the end of path.
Reconstruct(rootb, path, n) ==
    playMoveUpdating(ReplayAncestors(rootb, path, 1), n)

\* The move record with the characteristics examineAllSemilegalMoves saves
\* for the undo: the mover and the captured piece read from board b before
\* the move, and the en passant square eps the move function returned.
Played(m, b, eps) ==
    [f |-> m.f, t |-> m.t, tt |-> m.tt, promotion |-> m.promotion,
     mover |-> b[m.f], captured |-> b[m.tt], enPassantSquare |-> eps]

RECURSIVE PlayedAncestors(_, _, _)
\* The records t->moves holds for the ancestors' moves path[i] ..
\* path[Len(path) - 1] once the replay loop has played them from board b.
PlayedAncestors(b, path, i) ==
    IF i < Len(path)
    THEN LET r == playMove(b, path[i])
         IN <<Played(path[i], b, r.eps)>>
                \o PlayedAncestors(r.b, path, i + 1)
    ELSE <<>>

\* undoMove(t, m) on board b.
undoMove(b, m) ==
    LET b1 == [[b EXCEPT ![m.f] = m.mover] EXCEPT ![m.tt] = m.captured]
    IN IF m.enPassantSquare > -1
       THEN [b1 EXCEPT ![m.enPassantSquare] =
                            IF m.mover = wPAWN THEN bPAWN ELSE wPAWN]
       ELSE IF m.f = 4 /\ m.mover = wKING
       THEN IF m.t = 6 THEN [b1 EXCEPT ![5] = EMPTY, ![7] = wROOK]
            ELSE IF m.t = 2 THEN [b1 EXCEPT ![3] = EMPTY, ![0] = wROOK]
            ELSE b1
       ELSE IF m.f = 60 /\ m.mover = bKING
       THEN IF m.t = 62 THEN [b1 EXCEPT ![61] = EMPTY, ![63] = bROOK]
            ELSE IF m.t = 58 THEN [b1 EXCEPT ![59] = EMPTY, ![56] = bROOK]
            ELSE b1
       ELSE b1

RECURSIVE UndoMoves(_, _, _)
\* The undo loop of examineAllSemilegalMoves: the records ms (in root-to-leaf
\* order) are undone from the last one, ms[i], down to the first.
UndoMoves(b, ms, i) ==
    IF i >= 1 THEN UndoMoves(undoMove(b, ms[i]), ms, i - 1) ELSE b

\* The calculating board examineAllSemilegalMoves leaves behind for the node
\* n at the end of path: replay from rootb, then the undo loop.
ScratchBoard(rootb, path, n) ==
    LET ba == ReplayAncestors(rootb, path, 1)
        r == playMoveUpdating(ba, n)
        ms == PlayedAncestors(rootb, path, 1)
                \o <<Played(path[Len(path)], ba, r.eps)>>
    IN UndoMoves(r.b, ms, Len(ms))

\* ------------------------------------------------------------------------
\* Specifications
\* ------------------------------------------------------------------------
CInit(tc, sr) == [op |-> "init", a |-> <<MIN_TOTAL, MIN_TOTAL, tc, sr>>]
CSetup == [op |-> "setup", a |-> <<>>]
CStart == [op |-> "start", a |-> <<>>]
CTime == [op |-> "time", a |-> <<>>]
CStop == [op |-> "stop", a |-> <<>>]

InitArgs ==
    {<<MIN_TOTAL, MIN_TOTAL, tc, sr>> : tc \in MIN_THREADS .. MaxThreads, sr \in {0, 1}}

DriverInit ==
    \/ \E a \in InitArgs : initCall(a[1], a[2], a[3], a[4])
    \/ killLive
    \/ initFinish

DriverSetup ==
    \/ \E turn \in aux.turns : setupCall(RootData(turn))
    \/ repsTop
    \/ seedDone
    \/ distribute

DriverStart ==
    \/ \E op \in {"start", "time"} : startCall(op)
    \/ startRun
    \/ startRunning

DriverStop ==
    \/ stopCall
    \/ stopRun
    \/ stopWait

Engine ==
    \/ \E i \in Workers : runThread(i)
    \/ \E t \in Threads : examineNextPosition(t)

\* One session on one worker and on two workers.
Scripts ==
    {<<CInit(2, 0), CSetup, CStart, CStop>>,
     <<CInit(3, 1), CSetup, CTime>>}

Init ==
    /\ SchedInit
    /\ calls = 0
    /\ aux \in {[script |-> s, depth |-> MaxDepth, deltas |-> Deltas,
                    turns |-> Positions] : s \in Scripts}

Next ==
    \/ DriverInit
    \/ DriverSetup
    \/ DriverStart
    \/ DriverStop
    \/ Engine

Spec == Init /\ [][Next]_vars

\* Seeding and distribution with two workers besides the main thread.
ScriptsSeed ==
    {<<CInit(3, 1), CSetup, CStart, CStop>>,
     <<CInit(3, 0), CSetup, CTime>>}

InitSeed ==
    /\ SchedInit
    /\ calls = 0
    /\ aux \in {[script |-> s, depth |-> MaxDepth, deltas |-> {1},
                    turns |-> {WHITE}] : s \in ScriptsSeed}

SpecSeed == InitSeed /\ [][Next]_vars

\* Two sessions in a row on one worker: the second setupEvaluation follows
\* the return of evaluateStop.
ScriptsTwoSessions ==
    {<<CInit(2, sr), CSetup, CStart, CStop, CSetup, CStart>> : sr \in {0, 1}}

InitTwoSessions ==
    /\ SchedInit
    /\ calls = 0
    /\ aux \in {[script |-> s, depth |-> MaxDepth, deltas |-> {1},
                    turns |-> {WHITE}] : s \in ScriptsTwoSessions}

SpecTwoSessions == InitTwoSessions /\ [][Next]_vars

\* A session set up again while its workers are started, and a timed one.
ScriptsRestart ==
    {<<CInit(2, 0), CSetup, CStart, CSetup, CStop>>,
     <<CInit(3, 1), CSetup, CTime>>}

InitRestart ==
    /\ SchedInit
    /\ calls = 0
    /\ aux \in {[script |-> s, depth |-> 1, deltas |-> {1}, turns |-> {WHITE}] :
                   s \in ScriptsRestart}

SpecRestart == InitRestart /\ [][Next]_vars

\* One session that searches one level deeper, so that a queue holds nodes
\* of different depths.
DeepLimit == 3

ScriptsDeep ==
    {<<CInit(2, 1), CSetup, CStart, CStop>>}

InitDeep ==
    /\ SchedInit
    /\ calls = 0
    /\ aux \in {[script |-> s, depth |-> DeepLimit, deltas |-> {1},
                  turns |-> {WHITE}] : s \in ScriptsDeep}

SpecDeep == InitDeep /\ [][Next]_vars

\* Sessions with misuse of the API: init again while a session is running,
\* evaluateStart twice; threads scheduled fairly.
ScriptsReinit ==
    {<<CInit(2, 0), CSetup, CStart, CInit(2, 0), CStop>>,
     <<CInit(2, 0), CSetup, CStart, CStart, CStop, CStop>>}

InitReinit ==
    /\ SchedInit
    /\ calls = 0
    /\ aux \in {[script |-> s, depth |-> 1, deltas |-> {1}, turns |-> {WHITE}] :
                   s \in ScriptsReinit}

DriverStep ==
    \/ DriverInit
    \/ killRun
    \/ DriverSetup
    \/ DriverStart
    \/ DriverStop
    \/ examineNextPosition(0)

WorkerStep(i) ==
    \/ runThread(i)
    \/ examineNextPosition(i)

NextReinit ==
    \/ DriverStep
    \/ \E i \in Workers : WorkerStep(i)

SpecReinit == InitReinit /\ [][NextReinit]_vars

\* The same sessions with every thread scheduled fairly.
SpecFair ==
    /\ InitReinit
    /\ [][NextReinit]_vars
    /\ WF_vars(DriverStep)
    /\ \A i \in Workers : WF_vars(WorkerStep(i))

\* init called with arguments at the edges of the accepted ranges while a
\* session is running: one argument of a valid call is replaced at a time.
EdgeTotals == {MIN_TOTAL - 1, MIN_TOTAL, MAX_TOTAL, MAX_TOTAL + 1}
EdgeThreads == {MIN_THREADS - 1, MIN_THREADS, MaxThreads, MAX_THREADS, MAX_THREADS + 1}
EdgeSeedReps == {-1, 0, MAX_TOTAL, MAX_TOTAL + 1}

EdgeArgs ==
    {<<tn, MIN_TOTAL, MIN_THREADS, 0>> : tn \in EdgeTotals}
    \cup {<<MIN_TOTAL, tm, MIN_THREADS, 0>> : tm \in EdgeTotals}
    \cup {<<MIN_TOTAL, MIN_TOTAL, tc, 0>> : tc \in EdgeThreads \ {MAX_THREADS}}
    \cup {<<MIN_TOTAL, MIN_TOTAL, MIN_THREADS, sr>> : sr \in EdgeSeedReps}
    \cup {<<MIN_TOTAL - 1, MAX_TOTAL + 1, MAX_THREADS + 1, -1>>}

ScriptsInitArgs ==
    {<<CInit(2, 0), CSetup, CStart, [op |-> "init", a |-> a]>> : a \in EdgeArgs}

InitInitArgs ==
    /\ SchedInit
    /\ calls = 0
    /\ aux \in {[script |-> s, depth |-> 1, deltas |-> {1}, turns |-> {WHITE}] :
                   s \in ScriptsInitArgs}

NextInitArgs ==
    \/ \E a \in InitArgs \cup EdgeArgs : initCall(a[1], a[2], a[3], a[4])
    \/ killLive
    \/ killRun
    \/ initFinish
    \/ DriverSetup
    \/ DriverStart
    \/ Engine

SpecInitArgs == InitInitArgs /\ [][NextInitArgs]_vars

\* Calls in an order the interface does not intend: setupEvaluation before
\* any init, evaluateStart and evaluateTime before any setupEvaluation and
\* after an init that followed one.
ScriptsOrder ==
    {<<CSetup, CStart, CTime, CInit(2, 0), CStart, CTime, CSetup, CStart,
       CStop>>,
     <<CInit(2, 0), CSetup, CInit(2, 0), CStart, CTime, CSetup, CTime>>}

InitOrder ==
    /\ SchedInit
    /\ calls = 0
    /\ aux \in {[script |-> s, depth |-> 1, deltas |-> {1}, turns |-> Positions] :
                   s \in ScriptsOrder}

NextOrder ==
    \/ DriverInit
    \/ killRun
    \/ DriverSetup
    \/ DriverStart
    \/ DriverStop
    \/ Engine

SpecOrder == InitOrder /\ [][NextOrder]_vars

\* The sorter on its own: aux holds the arena ns (a root with n children
\* at indexes 1..n), the result sm and whether getSortedChoices has run.
SortArena(turn, evals) ==
    [k \in NodeIdx |->
        IF k = 0
        THEN [RootNode(turn) EXCEPT !.numChildren = Len(evals),
                                    !.numMoves = Len(evals),
                                    !.childStartIndex = 1]
        ELSE IF k <= Len(evals)
             THEN [JunkNode EXCEPT !.parentIndex = 0, !.e = evals[k],
                                   !.score = DEPTH_STEP,
                                   !.PLAYER_TURN = 1 - turn]
             ELSE JunkNode]

sortCall ==
    /\ ~aux.done
    /\ aux' = [aux EXCEPT !.sm = getSortedChoices(aux.ns), !.done = TRUE]
    /\ UNCHANGED <<schedVars, calls>>

InitSort ==
    /\ SchedInit
    /\ calls = 0
    /\ aux \in {[ns |-> SortArena(turn, ev), sm |-> <<>>, done |-> FALSE] :
                   turn \in Positions,
                   ev \in UNION {[1 .. n -> {-1, 0, 1}] : n \in 0 .. MaxChoices}}

SpecSort == InitSort /\ [][sortCall]_vars

\* Sessions that run out of space. The state is the one init leaves, with
\* one of the two capacities scaled down to SmallCap.
InitSmallArena ==
    /\ evaluationDepthLimit = DEFAULT_DEPTH_LIMIT
    /\ analysisD = ZeroD
    /\ initComplete = TRUE
    /\ setupComplete = FALSE
    /\ numThreads = MIN_THREADS
    /\ numSeedReps \in {0, 1}
    /\ run = [t \in Threads |-> FALSE]
    /\ running = [t \in Threads |-> FALSE]
    /\ live = [t \in Threads |-> t >= 1 /\ t < MIN_THREADS]
    /\ numThreadsRunning = 0
    /\ nodeCap \in {SmallCap, MIN_TOTAL}
    /\ globalMoveCap \in {SmallCap, MIN_TOTAL}
    /\ nodeCap # globalMoveCap
    /\ numNodes = 0
    /\ globalMoveLength = 0
    /\ nodes = [k \in NodeIdx |-> JunkNode]
    /\ futuresHeap = [t \in Threads |-> <<>>]
    /\ calcNumNodesAdded = 0
    /\ calcNumMovesAdded = 0
    /\ calcNumNodesExamined = 0
    /\ calcNumStalematesFound = 0
    /\ calcNumWhiteWinsFound = 0
    /\ calcNumBlackWinsFound = 0
    /\ calcNumNormalsFound = 0
    /\ sortedMoves = <<>>
    /\ dpc = "idle"
    /\ dloc = ZeroDloc
    /\ pc = [t \in Threads |-> IF t >= 1 /\ t < MIN_THREADS THEN "top" ELSE "none"]
    /\ loc = [t \in Threads |-> ZeroLoc]
    /\ ret = [op |-> "init", ok |-> TRUE, args |-> <<>>]
    /\ popped = {}
    /\ dupPop = FALSE
    /\ failedBy = {}
    /\ actedAfterFail = FALSE
    /\ stragglers = {}
    /\ expandedBy = [k \in NodeIdx |-> -1]
    /\ calls = 0
    /\ aux = [script |-> <<CSetup, CStart, CStop>>, depth |-> MaxDepth,
              deltas |-> {1}, turns |-> {WHITE}]

NextSession ==
    \/ DriverSetup
    \/ DriverStart
    \/ DriverStop
    \/ Engine

SpecSmallArena == InitSmallArena /\ [][NextSession]_vars

\* The board replay: a root position and a path of generated moves; aux
\* holds the root board rootb, the path, the board b and the node n after
\* the reconstruction for the node at the end of the path, the board rb
\* after applying the moves of the path one by one with playMoveUpdating, and
\* the calculating board cb as the call leaves it after its undo loop.
RootBoard ==
    [s \in Mem |->
        IF s = 4 THEN wKING ELSE IF s = 7 THEN wROOK
        ELSE IF s = 48 \/ s = 33 THEN wPAWN
        ELSE IF s = 60 THEN bKING ELSE IF s = 63 THEN bROOK
        ELSE IF s = 57 THEN bKNIGHT
        ELSE IF s = 50 \/ s = 8 THEN bPAWN
        ELSE IF s >= 64 THEN 0 ELSE EMPTY]

\* A root in which black, to move, is in check by the rook on h2 and is left
\* without a move once a pawn has taken the rook: black king h1, black
\* pawns g1, g2 and g3, white rook h2, white king a8.
CornerBoard ==
    [s \in Mem |->
        IF s = 7 THEN bKING ELSE IF s \in {6, 14, 22} THEN bPAWN
        ELSE IF s = 15 THEN wROOK ELSE IF s = 56 THEN wKING
        ELSE IF s >= 64 THEN 0 ELSE EMPTY]

CornerData ==
    [RootData(BLACK) EXCEPT !.wKINGSIDE_CASTLE = 0, !.bKINGSIDE_CASTLE = 0,
                            !.wKING_SQUARE = 56, !.bKING_SQUARE = 7]

\* The game state examineAllSemilegalMoves gives node n when its child pool
\* is empty; b is the calculating board at that point, after the undo loop.
TerminalState(b, n) ==
    LET kingSquare == IF n.PLAYER_TURN = BLACK
                      THEN n.bKING_SQUARE ELSE n.wKING_SQUARE
    IN IF kingNotInCheck(b, kingSquare, n.PLAYER_TURN = BLACK) THEN DRAW
       ELSE IF n.PLAYER_TURN = BLACK THEN WHITE_WIN ELSE BLACK_WIN

\* examineNextPosition creates the child for one generated move and
\* examineAllSemilegalMoves reconstructs its board, generates its moves,
\* undoes the path and classifies the node when it has no move.
replayStep ==
    /\ Len(aux.path) < MaxPath
    /\ \E m \in PawnKingMoves(aux.b, aux.n) :
         LET child == ChildNode(aux.n, m[1], m[2])
             path2 == Append(aux.path, MoveOf(m[1], m[2]))
             r == Reconstruct(aux.rootb, path2, child)
             cb == ScratchBoard(aux.rootb, path2, child)
             n2 == IF PawnKingMoves(r.b, r.n) = {}
                   THEN [r.n EXCEPT !.GAME_STATE = TerminalState(cb, r.n)]
                   ELSE r.n
         IN aux' = [aux EXCEPT !.path = path2, !.b = r.b, !.n = n2,
                               !.rb = playMoveUpdating(aux.rb, child).b,
                               !.cb = cb]
    /\ UNCHANGED <<schedVars, calls>>

InitBoard ==
    /\ SchedInit
    /\ calls = 0
    /\ aux \in {[rootb |-> RootBoard, path |-> <<>>, b |-> RootBoard,
                  n |-> RootData(turn), rb |-> RootBoard, cb |-> RootBoard] :
                    turn \in Positions}
               \cup {[rootb |-> CornerBoard, path |-> <<>>, b |-> CornerBoard,
                       n |-> CornerData, rb |-> CornerBoard,
                       cb |-> CornerBoard]}

SpecBoard == InitBoard /\ [][replayStep]_vars

\* One node on a board: aux holds the board b, the node's position data n,
\* its numMoves and numChildren and how far its expansion has come (st).
\* The side to move has a king only, so that PawnKingMoves is its whole
\* generator.
KingQueenBoard(wk, bq) ==
    [s \in Mem |->
        IF s = wk THEN wKING ELSE IF s = bq THEN bQUEEN
        ELSE IF s = 60 THEN bKING
        ELSE IF s >= 64 THEN 0 ELSE EMPTY]

KingQueenData(wk) ==
    [RootData(WHITE) EXCEPT !.wKINGSIDE_CASTLE = 0, !.bKINGSIDE_CASTLE = 0,
                            !.wKING_SQUARE = wk]

\* examineAllSemilegalMoves on the node: the child pool is counted and the
\* node is classified when the pool is empty.
nodeExamineAll ==
    /\ aux.st = "new"
    /\ LET k == Cardinality(PawnKingMoves(aux.b, aux.n))
           kingSquare == IF aux.n.PLAYER_TURN = BLACK
                         THEN aux.n.bKING_SQUARE ELSE aux.n.wKING_SQUARE
       IN IF k = 0
          THEN aux' = [aux EXCEPT
                         !.st = "terminal",
                         !.n.GAME_STATE =
                            IF kingNotInCheck(aux.b, kingSquare,
                                              aux.n.PLAYER_TURN = BLACK)
                            THEN DRAW
                            ELSE IF aux.n.PLAYER_TURN = BLACK
                                 THEN WHITE_WIN ELSE BLACK_WIN]
          ELSE aux' = [aux EXCEPT !.st = "queued", !.numMoves = k]
    /\ UNCHANGED <<schedVars, calls>>

\* examineNextPosition on the queued node: nc = n->numMoves children.
nodeExamineNext ==
    /\ aux.st = "queued"
    /\ aux' = [aux EXCEPT !.st = "expanded", !.numChildren = aux.numMoves]
    /\ UNCHANGED <<schedVars, calls>>

KingSquares == {0, 1, 9, 27}

InitExpand ==
    /\ SchedInit
    /\ calls = 0
    /\ aux \in {[b |-> KingQueenBoard(wk, bq), n |-> KingQueenData(wk),
                  numMoves |-> UNDEFINED, numChildren |-> 0, st |-> "new"] :
                    wk \in KingSquares, bq \in Squares \ (KingSquares \cup {60})}

NextExpand ==
    \/ nodeExamineAll
    \/ nodeExamineNext

SpecExpand == InitExpand /\ [][NextExpand]_vars

\* The castling validators: the answer ok and the board b they leave. Each
\* walks the king over its transit and destination squares on the caller's
\* board and puts it back before it returns.
isValidWKMove(b, f, t) ==
    IF f = 4 /\ t = 6 /\ b[5] = EMPTY /\ b[6] = EMPTY
    THEN LET b1 == [b EXCEPT ![4] = EMPTY, ![5] = wKING]
             b2 == [b1 EXCEPT ![5] = EMPTY, ![6] = wKING]
         IN [ok |-> /\ kingNotInCheck(b, 4, FALSE)
                    /\ kingNotInCheck(b1, 5, FALSE)
                    /\ kingNotInCheck(b2, 6, FALSE),
             b |-> [b EXCEPT ![4] = wKING, ![5] = EMPTY, ![6] = EMPTY]]
    ELSE [ok |-> FALSE, b |-> b]

isValidWQMove(b, f, t) ==
    IF f = 4 /\ t = 2 /\ b[3] = EMPTY /\ b[2] = EMPTY
    THEN LET b1 == [b EXCEPT ![4] = EMPTY, ![3] = wKING]
             b2 == [b1 EXCEPT ![3] = EMPTY, ![2] = wKING]
         IN [ok |-> /\ kingNotInCheck(b, 4, FALSE)
                    /\ kingNotInCheck(b1, 3, FALSE)
                    /\ kingNotInCheck(b2, 2, FALSE),
             b |-> [b EXCEPT ![4] = wKING, ![3] = EMPTY, ![2] = EMPTY]]
    ELSE [ok |-> FALSE, b |-> b]

isValidBKMove(b, f, t) ==
    IF f = 60 /\ t = 62 /\ b[61] = EMPTY /\ b[62] = EMPTY
    THEN LET b1 == [b EXCEPT ![60] = EMPTY, ![61] = bKING]
             b2 == [b1 EXCEPT ![61] = EMPTY, ![62] = bKING]
         IN [ok |-> /\ kingNotInCheck(b, 60, TRUE)
                    /\ kingNotInCheck(b1, 61, TRUE)
                    /\ kingNotInCheck(b2, 62, TRUE),
             b |-> [b EXCEPT ![60] = bKING, ![61] = EMPTY, ![62] = EMPTY]]
    ELSE [ok |-> FALSE, b |-> b]

\* isValidBQMove returns 1 as soon as the transit square 59 is safe; the
\* king is put back only when the destination 58 is safe too.
isValidBQMove(b, f, t) ==
    IF f = 60 /\ t = 58 /\ b[59] = EMPTY /\ b[58] = EMPTY
    THEN LET b1 == [b EXCEPT ![60] = EMPTY, ![59] = bKING]
             b2 == [b1 EXCEPT ![59] = EMPTY, ![58] = bKING]
             back == [b EXCEPT ![60] = bKING, ![59] = EMPTY, ![58] = EMPTY]
         IN IF kingNotInCheck(b, 60, TRUE) /\ kingNotInCheck(b1, 59, TRUE)
            THEN [ok |-> TRUE,
                  b |-> IF kingNotInCheck(b2, 58, TRUE) THEN back ELSE b2]
            ELSE [ok |-> FALSE, b |-> back]
    ELSE [ok |-> FALSE, b |-> b]

isValidKingMove(f, t) ==
    LET rd == (t \div 8) - (f \div 8)
        cd == (t % 8) - (f % 8)
    IN rd >= -1 /\ rd <= 1 /\ cd >= -1 /\ cd <= 1

\* isSemilegalMove for a king, or for no piece, on moveFrom: the answer ok
\* and the board b left by the validators that were called.
isSemilegalMove(b, d, moveFrom, moveTo) ==
    LET p == b[moveFrom]
    IN CASE p = wKING ->
              IF isValidKingMove(moveFrom, moveTo) THEN [ok |-> TRUE, b |-> b]
              ELSE IF d.wKINGSIDE_CASTLE # 0
                      /\ isValidWKMove(b, moveFrom, moveTo).ok
                   THEN [ok |-> TRUE, b |-> isValidWKMove(b, moveFrom, moveTo).b]
                   ELSE IF d.wQUEENSIDE_CASTLE # 0
                        THEN isValidWQMove(b, moveFrom, moveTo)
                        ELSE [ok |-> FALSE, b |-> b]
         [] p = bKING ->
              IF isValidKingMove(moveFrom, moveTo) THEN [ok |-> TRUE, b |-> b]
              ELSE IF d.bKINGSIDE_CASTLE # 0
                      /\ isValidBKMove(b, moveFrom, moveTo).ok
                   THEN [ok |-> TRUE, b |-> isValidBKMove(b, moveFrom, moveTo).b]
                   ELSE IF d.bQUEENSIDE_CASTLE # 0
                        THEN isValidBQMove(b, moveFrom, moveTo)
                        ELSE [ok |-> FALSE, b |-> b]
         [] p < wPAWN \/ p > bKING -> [ok |-> FALSE, b |-> b]

\* playMoveDriver(b, d): playMoveUpdating on a position descriptor.
playMoveDriver(b, d) ==
    [b |-> playMoveUpdating(b, d).b, d |-> playMoveUpdating(b, d).n]

\* isLegalMove(b, d, moveFrom, moveTo): the answer ok and the caller's board
\* b and descriptor d as the call leaves them.
isLegalMove(b, d, moveFrom, moveTo) ==
    LET playerTurn == d.PLAYER_TURN
        p == b[moveFrom]
        q == IF moveTo >= 96 THEN b[moveTo % 8]
             ELSE IF moveTo >= 64 THEN b[56 + (moveTo % 8)] ELSE b[moveTo]
        no == [ok |-> FALSE, b |-> b, d |-> d]
    IN IF moveFrom < 0 \/ moveFrom >= 64 THEN no
       ELSE IF moveTo < 0 THEN no
       ELSE IF moveFrom = moveTo THEN no
       ELSE IF p < 6 /\ playerTurn = BLACK THEN no
       ELSE IF p > 5 /\ playerTurn = WHITE THEN no
       ELSE IF q >= 6 /\ q <= 11 /\ playerTurn = BLACK THEN no
       ELSE IF q >= 0 /\ q <= 5 /\ playerTurn = WHITE THEN no
       ELSE LET s == isSemilegalMove(b, d, moveFrom, moveTo)
            IN IF ~s.ok THEN [ok |-> FALSE, b |-> s.b, d |-> d]
               ELSE LET d1 == [d EXCEPT !.SQUARE_FROM = moveFrom,
                                        !.SQUARE_TO = moveTo,
                                        !.PLAYER_TURN = 1 - playerTurn]
                        r == playMoveDriver(s.b, d1)
                        kingSquare == IF playerTurn = BLACK
                                      THEN r.d.bKING_SQUARE
                                      ELSE r.d.wKING_SQUARE
                    IN [ok |-> kingNotInCheck(r.b, kingSquare,
                                              playerTurn = BLACK),
                        b |-> s.b, d |-> d1]

\* Legality tests of king moves: aux holds the position b0, d0 and the move
\* f, t given to test_legality, and after the call its answer ok and the
\* board b and descriptor d isLegalMove was working on. Both kings and all
\* four rooks stand on their home squares, the other side has one more rook
\* on square a, and the side to move may have a knight beside its queen's
\* rook.
CastleBoard(turn, a, knight) ==
    [s \in Mem |->
        IF s = 4 THEN wKING ELSE IF s = 0 \/ s = 7 THEN wROOK
        ELSE IF s = 60 THEN bKING ELSE IF s = 56 \/ s = 63 THEN bROOK
        ELSE IF s = a THEN (IF turn = WHITE THEN bROOK ELSE wROOK)
        ELSE IF knight /\ turn = WHITE /\ s = 1 THEN wKNIGHT
        ELSE IF knight /\ turn = BLACK /\ s = 57 THEN bKNIGHT
        ELSE IF s >= 64 THEN 0 ELSE EMPTY]

CastleData(turn, ks, qs) ==
    [RootData(turn) EXCEPT !.wKINGSIDE_CASTLE = ks, !.wQUEENSIDE_CASTLE = qs,
                           !.bKINGSIDE_CASTLE = ks, !.bQUEENSIDE_CASTLE = qs]

RookSquares == 16 .. 47

KingMoves ==
    {<<4, 6>>, <<4, 2>>, <<4, 5>>, <<4, 3>>, <<4, 12>>,
     <<60, 62>>, <<60, 58>>, <<60, 61>>, <<60, 59>>, <<60, 52>>}

\* _testLegality: the position is read into a board and a descriptor of
\* its own and isLegalMove answers on them.
testLegalityCall ==
    /\ aux.st = "new"
    /\ LET r == isLegalMove(aux.b0, aux.d0, aux.f, aux.t)
       IN aux' = [aux EXCEPT !.st = "done", !.ok = r.ok, !.b = r.b, !.d = r.d]
    /\ UNCHANGED <<schedVars, calls>>

InitLegality ==
    /\ SchedInit
    /\ calls = 0
    /\ aux \in {[b0 |-> CastleBoard(turn, a, knight),
                  d0 |-> CastleData(turn, ks, qs),
                  f |-> m[1], t |-> m[2], st |-> "new", ok |-> FALSE,
                  b |-> CastleBoard(turn, a, knight),
                  d |-> CastleData(turn, ks, qs)] :
                    turn \in Positions, a \in RookSquares,
                    knight \in BOOLEAN, ks \in {0, 1}, qs \in {0, 1},
                    m \in KingMoves}

SpecLegality == InitLegality /\ [][testLegalityCall]_vars

\* _testCheck(isBlack, position): the position p is read into a board and a
\* descriptor of its own; the square tested on that board is the king
\* square recorded in analysisD.
testCheckCall(isBlack, p) ==
    /\ dpc = "idle"
    /\ NextCall("check", <<isBlack, p>>)
    /\ calls' = calls + 1
    /\ LET square == IF isBlack THEN analysisD.bKING_SQUARE
                     ELSE analysisD.wKING_SQUARE
       IN ret' = [op |-> "check", ok |-> ~kingNotInCheck(p.b, square, isBlack),
                  args |-> <<isBlack, p>>]
    /\ UNCHANGED <<ctl, flags, numThreadsRunning, arena, futuresHeap, stats,
                   sortedMoves, dpc, dloc, pc, loc, ghost, aux>>

\* Check tests before a session is set up, after it and after its search
\* has run: the tested positions have the white king on wk, a black queen
\* on bq and the black king on e8; the session's position has the kings on
\* e1 and e8.
CheckPositions ==
    {[b |-> KingQueenBoard(wk, bq), d |-> KingQueenData(wk)] :
        wk \in {0, 4, 27}, bq \in {16, 20, 59}}

CCheck(isBlack, p) == [op |-> "check", a |-> <<isBlack, p>>]

ScriptsCheck ==
    {<<CCheck(isBlack, p), CInit(2, 1), CSetup, CCheck(isBlack, p),
       CStart, CStop, CCheck(isBlack, p)>> :
        isBlack \in BOOLEAN, p \in CheckPositions}

DriverCheck ==
    \E isBlack \in BOOLEAN, p \in CheckPositions : testCheckCall(isBlack, p)

InitCheck ==
    /\ SchedInit
    /\ calls = 0
    /\ aux \in {[script |-> s, depth |-> 1, deltas |-> {1}, turns |-> Positions] :
                   s \in ScriptsCheck}

NextCheck ==
    \/ DriverInit
    \/ DriverSetup
    \/ DriverCheck
    \/ DriverStart
    \/ DriverStop
    \/ Engine

SpecCheck == InitCheck /\ [][NextCheck]_vars

\* writeInt(e * 1000.0): the int written for an eval; the conversion of a
\* product outside the range of int is undefined and may give any of the
\* values below.
WrittenEval(e) ==
    IF e > 2147483 \/ e < -2147483 THEN {-2147483647 - 1, 0, 2147483647}
    ELSE {e * 1000}

\* _getOutputData: the ints written are kept in ret.args: the number of
\* choices, the eval of each sorted choice (its squares and its move text
\* are not part of the arena), and the three counters. nodes is a null
\* pointer until the first init.
getOutputCall ==
    /\ dpc = "idle"
    /\ NextCall("output", <<>>)
    /\ calls' = calls + 1
    /\ IF ~initComplete
       THEN /\ ret' = [op |-> "output", ok |-> TRUE,
                       args |-> <<0, calcNumNodesAdded, calcNumMovesAdded,
                                  calcNumNodesExamined>>]
            /\ UNCHANGED sortedMoves
       ELSE LET sm == getSortedChoices(nodes)
            IN /\ sortedMoves' = sm
               /\ \E ch \in [1 .. Len(sm) ->
                               UNION {WrittenEval(nodes[k].e) : k \in NodeIdx}] :
                    /\ \A i \in 1 .. Len(sm) : ch[i] \in WrittenEval(nodes[sm[i]].e)
                    /\ ret' = [op |-> "output", ok |-> TRUE,
                               args |-> <<nodes[0].numChildren>> \o ch \o
                                        <<calcNumNodesAdded, calcNumMovesAdded,
                                          calcNumNodesExamined>>]
    /\ UNCHANGED <<ctl, flags, numThreadsRunning, arena, futuresHeap, stats,
                   dpc, dloc, pc, loc, ghost, aux>>

\* Sessions whose result is read with get_output, and a get_output before
\* any init.
COutput == [op |-> "output", a |-> <<>>]

ScriptsOutput ==
    {<<CInit(2, 1), CSetup, CTime, COutput>>,
     <<COutput, CInit(2, 0), CSetup, CStart, CStop, COutput>>}

InitOutput ==
    /\ SchedInit
    /\ calls = 0
    /\ aux \in {[script |-> s, depth |-> 1, deltas |-> {1}, turns |-> Positions] :
                   s \in ScriptsOutput}

NextOutput ==
    \/ DriverInit
    \/ DriverSetup
    \/ DriverStart
    \/ DriverStop
    \/ getOutputCall
    \/ Engine

SpecOutput == InitOutput /\ [][NextOutput]_vars

\* Output and stop requested where no session has been set up: after a
\* second init that follows a finished session, and before any init.
ScriptsStale ==
    {<<CInit(2, 1), CSetup, CTime, CInit(2, 1), COutput>>,
     <<CInit(2, 0), CSetup, CStart, CStop, CInit(2, 0), CStop>>,
     <<CStop>>}

InitStale ==
    /\ SchedInit
    /\ calls = 0
    /\ aux \in {[script |-> s, depth |-> 1, deltas |-> {1}, turns |-> Positions] :
                   s \in ScriptsStale}

NextStale ==
    \/ NextOutput
    \/ killRun

SpecStale == InitStale /\ [][NextStale]_vars

\* The children of one root on their own: aux holds the arena ns after
\* setupEvaluation examined a root whose child pool had the static deltas
\* evals, the move cursor gml and the number i of children that the loop of
\* examineNextPosition has created at indexes 1 .. i.
ChildArena(turn, g) ==
    LET ns0 == [k \in NodeIdx |-> IF k = 0 THEN RootNode(turn) ELSE JunkNode]
        r == examineAllSemilegalMoves(ns0, 0, MIN_TOTAL, 0, <<>>, 0, g)
    IN [ns |-> [r.nodes EXCEPT ![0].numChildren = g.k,
                               ![0].childStartIndex = 1],
        gml |-> r.gml]

\* One iteration of the child loop of examineNextPosition for the root.
childStep ==
    /\ aux.i < aux.ns[0].numChildren
    /\ LET c == 1 + aux.i
           ns1 == [aux.ns EXCEPT ![c] = newN(aux.ns, 0)]
       IN \E g \in GenInputs(ns1[c].score) :
            LET r == examineAllSemilegalMoves(ns1, aux.gml, MIN_TOTAL, 0, <<>>,
                                              c, g)
            IN aux' = [aux EXCEPT !.ns = r.nodes, !.gml = r.gml, !.i = c]
    /\ UNCHANGED <<schedVars, calls>>

InitChild ==
    /\ SchedInit
    /\ calls = 0
    /\ aux \in {[ns |-> ChildArena(turn, g).ns, gml |-> ChildArena(turn, g).gml,
                  evals |-> g.evals, i |-> 0, depth |-> MaxDepth,
                  deltas |-> Deltas] :
                    turn \in Positions,
                    g \in UNION {{[k |-> k, evals |-> ev, check |-> FALSE] :
                                    ev \in [1 .. k -> Deltas]} : k \in 1 .. MaxMoves}}

SpecChild == InitChild /\ [][childStep]_vars

\* The same creation of the root's children for moves whose static deltas
\* differ in size.
LossDeltas == {0, -1, 3}

InitScore ==
    /\ SchedInit
    /\ calls = 0
    /\ aux \in {[ns |-> ChildArena(turn, g).ns, gml |-> ChildArena(turn, g).gml,
                  evals |-> g.evals, i |-> 0, depth |-> MaxDepth,
                  deltas |-> LossDeltas] :
                    turn \in Positions,
                    g \in UNION {{[k |-> k, evals |-> ev, check |-> FALSE] :
                                    ev \in [1 .. k -> LossDeltas]} :
                                      k \in 1 .. MaxMoves}}

SpecScore == InitScore /\ [][childStep]_vars

\* The eval tables, in hundredths: piecePointValues and
\* pieceEdgeContribution, and evalBoards[i][j] as setupEvalBoards fills it.
piecePointValues ==
    <<100, 300, 330, 500, 900, 0, -100, -300, -330, -500, -900, 0>>

pieceEdgeContribution == <<5, 8, 7, 7, 15, 0, -5, -8, -7, -7, -15, 0>>

evalBoards(i, j) ==
    LET rowScore == IF i < 6 THEN j \div 8 ELSE 7 - (j \div 8)
        colScore == IF j % 8 < 4 THEN j % 8 ELSE 7 - (j % 8)
    IN piecePointValues[i + 1]
         + (rowScore + colScore - 3) * pieceEdgeContribution[i + 1]

\* What a read of evalBoards[promotion] can yield when promotion is not one
\* of the twelve rows of the table.
OutsideTable == {-1, 0, 1}

\* computeEvalMove(b, moveFrom, trueMoveto, promotion): the values it can
\* return.
computeEvalMove(b, moveFrom, trueMoveto, promotion) ==
    LET o1 == IF b[trueMoveto] # EMPTY
              THEN 0 - evalBoards(b[trueMoveto], trueMoveto) ELSE 0
        o2 == o1 - evalBoards(b[moveFrom], moveFrom)
    IN IF promotion = -1
       THEN {o2 + evalBoards(b[moveFrom], trueMoveto)}
       ELSE IF promotion \in 0 .. 11
            THEN {o2 + evalBoards(promotion, trueMoveto)}
            ELSE {o2 + v : v \in OutsideTable}

\* examineMove(t, moveFrom, moveTo) on board b: the values childEvals[l] can
\* get.
examineMoveDecode(moveTo) ==
    LET trueMoveto == IF moveTo >= 96 THEN moveTo % 8
                      ELSE IF moveTo >= 64 THEN 56 + (moveTo % 8) ELSE moveTo
    IN [tt |-> trueMoveto,
        promotion |-> IF moveTo >= 96 THEN CDiv(trueMoveto, 8) - 5
                      ELSE IF moveTo >= 64 THEN CDiv(trueMoveto, 8) - 7 ELSE -1]

examineMove(b, moveFrom, moveTo) ==
    LET trueMoveto == examineMoveDecode(moveTo).tt
        promotion == examineMoveDecode(moveTo).promotion
    IN IF ifBlack(b, moveFrom)
       THEN IF b[trueMoveto] = wKING THEN {BLACK_WINS_EVAL}
            ELSE computeEvalMove(b, moveFrom, trueMoveto, promotion)
       ELSE IF b[trueMoveto] = bKING THEN {WHITE_WINS_EVAL}
            ELSE computeEvalMove(b, moveFrom, trueMoveto, promotion)

\* One generated move on its own: aux holds the board b, the position data
\* n, the move m = <<from, to>> the generator passed to examineMove (<<>>
\* before) and the delta eval e stored for it.
examineMoveStep ==
    /\ aux.m = <<>>
    /\ \E m \in PawnKingMoves(aux.b, aux.n) :
         \E e \in examineMove(aux.b, m[1], m[2]) :
            aux' = [aux EXCEPT !.m = m, !.e = e]
    /\ UNCHANGED <<schedVars, calls>>

InitMoveEval ==
    /\ SchedInit
    /\ calls = 0
    /\ aux \in {[b |-> RootBoard, n |-> RootData(turn), m |-> <<>>, e |-> 0] :
                    turn \in Positions}
               \cup {[b |-> CornerBoard, n |-> CornerData, m |-> <<>>,
                       e |-> 0]}
               \cup {[b |-> KingQueenBoard(wk, bq), n |-> KingQueenData(wk),
                       m |-> <<>>, e |-> 0] :
                        wk \in KingSquares,
                        bq \in Squares \ (KingSquares \cup {60})}

SpecMoveEval == InitMoveEval /\ [][examineMoveStep]_vars

\* The check test on its own: aux holds a board b with one piece of the
\* other side on s, at most one piece of the tested side on a square of
\* BlockerSquares, and the tested side's king or nothing on the tested
\* square x; ans is the answer of kingNotInCheck once done.
BlockerSquares == {27}

AttackBoard(x, isBlack, onX, s, a, k) ==
    [q \in Mem |->
        IF q = s THEN a
        ELSE IF q = x THEN (IF onX THEN (IF isBlack THEN bKING ELSE wKING)
                            ELSE EMPTY)
        ELSE IF q = k THEN (IF isBlack THEN bKNIGHT ELSE wKNIGHT)
        ELSE IF q >= 64 THEN 0 ELSE EMPTY]

checkStep ==
    /\ ~aux.done
    /\ aux' = [aux EXCEPT !.done = TRUE,
                          !.ans = kingNotInCheck(aux.b, aux.x, aux.isBlack)]
    /\ UNCHANGED <<schedVars, calls>>

InitAttack ==
    /\ SchedInit
    /\ calls = 0
    /\ aux \in {[b |-> AttackBoard(x, isBlack, v[1], s,
                                   a + (IF isBlack THEN 0 ELSE 6), v[2]),
                  x |-> x, isBlack |-> isBlack, ans |-> FALSE, done |-> FALSE] :
                    x \in Squares, isBlack \in BOOLEAN, s \in Squares,
                    a \in wPAWN .. wKING,
                    v \in {<<FALSE, -1>>, <<TRUE, -1>>}
                           \cup {<<TRUE, k>> : k \in BlockerSquares}}

SpecAttack == InitAttack /\ [][checkStep]_vars

\* getPromotionSquareCode(col, type): the moveto value of a promotion on
\* file col to the piece type.
getPromotionSquareCode(col, type) ==
    IF type >= 7 /\ type <= 11 THEN col + 8 * (type + 5)
    ELSE IF type >= 1 /\ type <= 5 THEN col + 8 * (type + 7)
    ELSE -128

\* The decoders of a moveto value on their own: aux holds the value to and
\* the colour of the pawn that makes the move (one step forward, from its
\* seventh rank for to >= 64).  Once done, rec is what the reconstruction
\* loop decodes, exm what examineMove decodes, ply the square and the piece
\* playMoveUpdating puts on the board (piece -1: the pawn itself), and code
\* the value getPromotionSquareCode returns for rec.
DecodeFrom(to, white) ==
    IF to >= 96 THEN 8 + (to % 8)
    ELSE IF to >= 64 THEN 48 + (to % 8)
    ELSE IF white THEN to - 8 ELSE to + 8

DecodePlayed(to, white) ==
    LET from == DecodeFrom(to, white)
        pawn == IF white THEN wPAWN ELSE bPAWN
        b == [q \in Mem |-> IF q = from THEN pawn
                            ELSE IF q >= 64 THEN 0 ELSE EMPTY]
        n == [RootData(IF white THEN WHITE ELSE BLACK)
                 EXCEPT !.SQUARE_FROM = from, !.SQUARE_TO = to]
        r == playMoveUpdating(b, n)
        tt == CHOOSE q \in Squares : r.b[q] # EMPTY
    IN [tt |-> tt, piece |-> IF r.b[tt] = pawn THEN -1 ELSE r.b[tt]]

decodeStep ==
    /\ ~aux.done
    /\ LET m == MoveOf(DecodeFrom(aux.to, aux.white), aux.to)
       IN aux' = [aux EXCEPT
                    !.done = TRUE,
                    !.rec = [tt |-> m.tt, piece |-> m.promotion],
                    !.exm = examineMoveDecode(aux.to),
                    !.ply = DecodePlayed(aux.to, aux.white),
                    !.code = getPromotionSquareCode(m.tt % 8, m.promotion)]
    /\ UNCHANGED <<schedVars, calls>>

InitDecode ==
    /\ SchedInit
    /\ calls = 0
    /\ aux \in {[to |-> v[1], white |-> v[2], done |-> FALSE,
                  rec |-> <<>>, exm |-> <<>>, ply |-> <<>>, code |-> 0] :
                    v \in ((16 .. 95) \X {TRUE})
                          \cup (((0 .. 47) \cup (96 .. 127)) \X {FALSE})}

SpecDecode == InitDecode /\ [][decodeStep]_vars

\* The castling generators on their own: aux holds a board b with the king
\* of the side to move on its home square or one rank ahead, its rooks on
\* none, one or both corners, at most one knight of its own next to a rook,
\* and one piece of the other side anywhere else; n carries the side to move
\* and its two castling flags.  Once done, castles are the generated king
\* moves of two files and after is the scratch board the generators left.
HomeRank(turn) == IF turn = WHITE THEN 0 ELSE 56

GeneratorBoard(turn, ahead, rk, rq, blk, s, a) ==
    LET h == HomeRank(turn)
        ks == IF ahead THEN (IF turn = WHITE THEN 12 ELSE 52) ELSE h + 4
    IN [q \in Mem |->
          IF q >= 64 THEN 0
          ELSE IF q = ks THEN (IF turn = WHITE THEN wKING ELSE bKING)
          ELSE IF q = s THEN a + (IF turn = WHITE THEN 6 ELSE 0)
          ELSE IF (q = h + 7 /\ rk) \/ (q = h /\ rq)
               THEN (IF turn = WHITE THEN wROOK ELSE bROOK)
          ELSE IF blk >= 0 /\ q = h + blk
               THEN (IF turn = WHITE THEN wKNIGHT ELSE bKNIGHT)
          ELSE EMPTY]

GeneratorData(turn, fk, fq, ahead) ==
    LET ks == IF ahead THEN (IF turn = WHITE THEN 12 ELSE 52)
              ELSE HomeRank(turn) + 4
    IN IF turn = WHITE
       THEN [RootData(WHITE) EXCEPT !.wKINGSIDE_CASTLE = fk,
                                    !.wQUEENSIDE_CASTLE = fq,
                                    !.bKINGSIDE_CASTLE = 0,
                                    !.wKING_SQUARE = ks, !.bKING_SQUARE = -1]
       ELSE [RootData(BLACK) EXCEPT !.bKINGSIDE_CASTLE = fk,
                                    !.bQUEENSIDE_CASTLE = fq,
                                    !.wKINGSIDE_CASTLE = 0,
                                    !.bKING_SQUARE = ks, !.wKING_SQUARE = -1]

castleStep ==
    /\ ~aux.done
    /\ LET ks == IF aux.n.PLAYER_TURN = BLACK THEN aux.n.bKING_SQUARE
                 ELSE aux.n.wKING_SQUARE
       IN aux' = [aux EXCEPT
                    !.done = TRUE,
                    !.castles = {m[2] : m \in {mm \in PawnKingMoves(aux.b, aux.n) :
                                                 /\ mm[1] = ks
                                                 /\ mm[2] \in {ks - 2, ks + 2}}},
                    !.after = CastlingScratch(aux.b, aux.n, ks)]
    /\ UNCHANGED <<schedVars, calls>>

InitCastle ==
    /\ SchedInit
    /\ calls = 0
    /\ aux \in {[b |-> GeneratorBoard(turn, ahead, r[1], r[2], blk, s, a),
                  n |-> GeneratorData(turn, f[1], f[2], ahead),
                  castles |-> {}, after |-> <<>>, done |-> FALSE] :
                    turn \in Positions, ahead \in BOOLEAN,
                    r \in BOOLEAN \X BOOLEAN, f \in {0, 1} \X {0, 1},
                    blk \in {-1, 1, 6}, s \in Squares \ {4, 12, 52, 60},
                    a \in wPAWN .. wKING}

SpecCastle == InitCastle /\ [][castleStep]_vars

\* The queue of one worker on its own: aux holds the scores sc of the
\* nodes, the heap h, the number of times each index is queued according to
\* the calls made (cnt), and the index the last call popped (last, -1 after
\* a push).
heapPush ==
    /\ Len(aux.h) < MaxHeap
    /\ \E q \in 0 .. (HeapNodes - 1) :
         aux' = [aux EXCEPT !.h = addFutureQueue(aux.h, q, aux.sc),
                            !.cnt[q] = aux.cnt[q] + 1,
                            !.last = -1]
    /\ UNCHANGED <<schedVars, calls>>

heapPop ==
    /\ aux.h # <<>>
    /\ LET r == getFirstFuture(aux.h, aux.sc)
       IN aux' = [aux EXCEPT !.h = r.heap,
                             !.cnt[r.o] = aux.cnt[r.o] - 1,
                             !.last = r.o]
    /\ UNCHANGED <<schedVars, calls>>

InitHeap ==
    /\ SchedInit
    /\ calls = 0
    /\ aux \in {[sc |-> f, h |-> <<>>, cnt |-> [q \in 0 .. (HeapNodes - 1) |-> 0],
                  last |-> -1] :
                    f \in [0 .. (HeapNodes - 1) -> {0, DEPTH_STEP, 2 * DEPTH_STEP}]}

NextHeap ==
    \/ heapPush
    \/ heapPop

SpecHeap == InitHeap /\ [][NextHeap]_vars

\* ------------------------------------------------------------------------
\* Properties
\* ------------------------------------------------------------------------
StopReturned == dpc = "idle" /\ ret.op \in {"stop", "time"} /\ ret.ok

\* C1: whenever evaluateStop (or evaluateTime) has returned, no worker
\* 1..numThreads-1 is inside an expansion.
C1_StopQuiesces ==
    StopReturned => \A i \in Workers : ~InExpansion(i)

\* C1 (the case): evaluateStop has returned after a session was started.
C1_StopReturned ==
    StopReturned /\ calcNumNodesExamined > 0

\* No node index is held twice in the queues, in one queue or in two.
QueueUnique ==
    \A t, u \in Threads :
        \A i \in DOMAIN futuresHeap[t], j \in DOMAIN futuresHeap[u] :
            futuresHeap[t][i] = futuresHeap[u][j] => (t = u /\ i = j)

\* C2: within a session every node index is dequeued for expansion at most
\* once, and at every moment it is held in at most one queue, at most once.
C2_ExpandedOnce ==
    ~dupPop /\ QueueUnique

\* C3: when evaluateStop has returned and no expansion is in progress, every
\* node with numChildren > 0 holds the extremum of its children's evals
\* (max for white, min for black) after the mate delay.
C3_EvalIsExtremum ==
    (StopReturned /\ stragglers = {} /\ \A t \in Threads : ~InExpansion(t)) =>
        \A n \in NodeIdx :
            (n < numNodes /\ nodes[n].numChildren > 0) =>
                nodes[n].e = backtrackEval(nodes, n)

\* C4: for every non-root node the board its moves are generated on (the
\* root board with the ancestors' moves replayed by playMove and the last
\* one by playMoveUpdating) equals the board obtained by applying the moves
\* of the path under the move-application rules.
C4_ReplayedBoardIsRuleBoard ==
    Len(aux.path) >= 1 => \A s \in Squares : aux.b[s] = aux.rb[s]

\* C4 (the case): a path with a promotion that is not its last move.
C4_PromotionInsidePath ==
    /\ Len(aux.path) >= 2
    /\ \E i \in 1 .. (Len(aux.path) - 1) : aux.path[i].promotion > -1

\* How often index q is held in heap h.
Held(h, q) == Cardinality({j \in DOMAIN h : h[j] = q})

\* C5: each getFirstFuture returns an index whose score is at most the
\* score of every index still queued, and the queue holds exactly the
\* pushed indexes minus the popped ones, as a multiset.
C5_PopIsMinimum ==
    /\ aux.last # -1 => \A j \in DOMAIN aux.h : aux.sc[aux.last] <= aux.sc[aux.h[j]]
    /\ \A q \in 0 .. (HeapNodes - 1) : Held(aux.h, q) = aux.cnt[q]

\* C5 (the case): a pop from a queue of four or more entries, some of them
\* with equal scores, that leaves entries of a higher score behind.
C5_PopAmongTies ==
    /\ aux.last # -1
    /\ Len(aux.h) >= 3
    /\ \E i, j \in DOMAIN aux.h : i # j /\ aux.sc[aux.h[i]] = aux.sc[aux.h[j]]
    /\ \E j \in DOMAIN aux.h : aux.sc[aux.last] < aux.sc[aux.h[j]]

\* C6: after a worker's allocation in the node arena or in the move pool
\* has failed, that worker dequeues no further node and advances the node
\* cursor no further in the session.
C6_NoExpansionAfterFailure ==
    ~actedAfterFail

\* C6 (the case): a worker's allocation has failed during the session.
C6_WorkerAllocationFailed ==
    \E i \in Workers : i \in failedBy

\* C7: under fair scheduling every call of evaluateStop returns.
C7_StopReturns ==
    (dpc = "stop_wait") ~> (dpc # "stop_wait")

\* C8: getSortedChoices yields a permutation of the root's child slice,
\* ordered by eval non-increasing for a white root and non-decreasing for a
\* black root, for any number of root children.
C8_SortedPermutation ==
    aux.done =>
        LET n == aux.ns[0].numChildren
            c == aux.ns[0].childStartIndex
            sm == aux.sm
        IN /\ Len(sm) = n
           /\ {sm[i] : i \in 1 .. n} = {c + i - 1 : i \in 1 .. n}
           /\ \A i, j \in 1 .. n :
                 i < j => IF aux.ns[0].PLAYER_TURN = WHITE
                          THEN aux.ns[sm[i]].e >= aux.ns[sm[j]].e
                          ELSE aux.ns[sm[i]].e <= aux.ns[sm[j]].e

\* C8 (the case): a black root with three or more children, two of equal
\* eval, that the sorter had to reorder.
C8_BlackRootReordered ==
    /\ aux.done
    /\ aux.ns[0].PLAYER_TURN = BLACK
    /\ Len(aux.sm) >= 3
    /\ aux.sm[1] # 1
    /\ \E i, j \in 1 .. Len(aux.sm) : i # j /\ aux.ns[i].e = aux.ns[j].e

\* init has returned with the arguments ret.args.
InitReturned == dpc = "idle" /\ ret.op = "init"

\* The ranges init accepts.
ArgsInRange(a) ==
    /\ a[1] >= 1000 /\ a[1] <= 2000000000
    /\ a[2] >= 1000 /\ a[2] <= 2000000000
    /\ a[3] >= 2 /\ a[3] <= 100
    /\ a[4] >= 0 /\ a[4] <= 2000000000

\* A call of init returns failure in this step.
InitFails == calls' = calls + 1 /\ ret'.op = "init" /\ ~ret'.ok /\ dpc' = "idle"

\* C9: init returns failure exactly when an argument is outside its range,
\* and a failing init changes nothing: initComplete, setupComplete, the
\* worker set, the capacities, the cursors and numSeedReps keep their values.
C9_InitRejectsExactlyOutOfRange ==
    /\ [](InitReturned => (ret.ok <=> ArgsInRange(ret.args)))
    /\ [](\A tn, tm \in EdgeTotals : \A tc \in EdgeThreads : \A sr \in EdgeSeedReps :
            InitParamsValid(tn, tm, tc, sr) <=> ArgsInRange(<<tn, tm, tc, sr>>))
    /\ [][InitFails =>
            UNCHANGED <<initComplete, setupComplete, numThreads, live, pc,
                        nodeCap, globalMoveCap, numNodes, globalMoveLength,
                        numSeedReps>>]_vars

\* C9 (the case): init has returned failure while a session was running.
C9_InitFailedInSession ==
    InitReturned /\ ~ret.ok /\ calls = 4 /\ numNodes > 1

\* C10: when init returns success, in any state it was called in, the new
\* workers are live and none is running, numThreadsRunning is 0, both
\* cursors are 0 and setupComplete is false.
C10_InitResetsControlState ==
    (InitReturned /\ ret.ok) =>
        /\ \A t \in Threads : live[t] <=> (t >= 1 /\ t < numThreads)
        /\ \A t \in Threads : ~run[t] /\ ~running[t]
        /\ \A t \in Workers : t < numThreads => pc[t] \in {"top", "chk_run", "chk_running"}
        /\ numThreadsRunning = 0
        /\ numNodes = 0
        /\ globalMoveLength = 0
        /\ ~setupComplete

\* C10 (the case): init has returned success after a session was started.
C10_ReinitReturned ==
    InitReturned /\ ret.ok /\ calls >= 4

\* The program's state without the positions of its threads.
programState == <<ctl, flags, numThreadsRunning, arena, futuresHeap, stats,
                  sortedMoves>>

\* The call made in this step is op.
CallStep(op) ==
    /\ calls' = calls + 1
    /\ calls < Len(aux.script)
    /\ aux.script[calls + 1].op = op

\* setupEvaluation and evaluateStart / evaluateTime guard on initComplete
\* and setupComplete: the part of C11 about return values and run flags.
C11_GuardsHold ==
    /\ [][CallStep("setup") /\ ~initComplete
             => ret' = [op |-> "setup", ok |-> FALSE, args |-> <<>>]]_vars
    /\ [][\A op \in {"start", "time"} :
             (CallStep(op) /\ ~setupComplete)
                => (/\ ret' = [op |-> op, ok |-> FALSE, args |-> <<>>]
                    /\ dpc' = "idle"
                    /\ UNCHANGED programState)]_vars
    /\ [][CallStep("init") /\ dpc' # "idle" => ~setupComplete']_vars
    /\ [][(~setupComplete /\ setupComplete') => (ret'.op = "setup" /\ ret'.ok)]_vars

\* C11: setup_evaluation returns failure and changes no state unless an
\* init has succeeded; evaluate_start and evaluate_time return failure and
\* set no run flag unless a setup_evaluation has succeeded since the last
\* successful init.
C11_FailureChangesNothing ==
    /\ C11_GuardsHold
    /\ [][CallStep("setup") /\ ~initComplete => UNCHANGED programState]_vars

\* C11 (the case): setup_evaluation has failed before any init, and
\* evaluate_time has failed after a re-init.
C11_SetupFailed ==
    dpc = "idle" /\ ret.op = "setup" /\ ~ret.ok /\ ~initComplete

\* The child slice a node has published.
Slice(ns, n) ==
    IF ns[n].numChildren > 0
    THEN {k \in NodeIdx : k >= ns[n].childStartIndex
                          /\ k < ns[n].childStartIndex + ns[n].numChildren}
    ELSE {}

RECURSIVE TreeFrom(_, _, _)
\* The nodes reached from the set r through published slices in d rounds.
TreeFrom(ns, r, d) ==
    IF d = 0 THEN r
    ELSE TreeFrom(ns, r \cup UNION {Slice(ns, n) : n \in r}, d - 1)

\* The nodes of the current tree: the root and what its slices reach.
Tree == TreeFrom(nodes, {0}, MaxDepth + 2)

RECURSIVE SumOver(_, _)
SumOver(f, S) ==
    IF S = {} THEN 0
    ELSE LET x == CHOOSE y \in S : TRUE IN f[x] + SumOver(f, S \ {x})

SetupReturned == dpc = "idle" /\ ret.op = "setup" /\ ret.ok

\* C12: after every successful setup_evaluation the cursors and the stats
\* count only the nodes and moves of the tree of this session, the root is
\* at index 0 with parent -1, score 0 and the side to move of the input
\* position, and every queued index is a node of this session's tree.
C12_SetupStartsFreshSession ==
    SetupReturned =>
        /\ nodes[0].parentIndex = UNDEFINED
        /\ nodes[0].score = ROOT_SCORE
        /\ nodes[0].PLAYER_TURN = analysisD.PLAYER_TURN
        /\ numNodes = Cardinality(Tree)
        /\ calcNumNodesAdded = Cardinality(Tree)
        /\ globalMoveLength =
              SumOver([n \in NodeIdx |-> IF nodes[n].numMoves > 0
                                         THEN nodes[n].numMoves ELSE 0], Tree)
        /\ calcNumMovesAdded = globalMoveLength
        /\ \A t \in Threads : \A k \in 1 .. Len(futuresHeap[t]) :
              /\ futuresHeap[t][k] \in Tree
              /\ nodes[futuresHeap[t][k]].numChildren = 0
        /\ futuresHeap[0] = <<>>

\* C12 (the case): a second setup_evaluation has returned after a session
\* that expanded nodes.
C12_SecondSetupReturned ==
    SetupReturned /\ calls >= 5

\* A session exists and no thread is inside an expansion or a setup.
SessionQuiet ==
    /\ setupComplete
    /\ dpc = "idle"
    /\ \A t \in Threads : ~InExpansion(t)

\* C13: whenever no expansion is in progress, the sum of numMoves over the
\* nodes of the current tree is calcNumMovesAdded and the sum of numChildren
\* over them is calcNumNodesAdded - 1.
C13_StatsMatchTree ==
    SessionQuiet =>
        /\ SumOver([n \in NodeIdx |-> nodes[n].numMoves], Tree) = calcNumMovesAdded
        /\ SumOver([n \in NodeIdx |-> nodes[n].numChildren], Tree)
              = calcNumNodesAdded - 1

\* C13 (the case): a quiet session whose root was classified as terminal.
C13_TerminalRootSession ==
    SessionQuiet /\ nodes[0].GAME_STATE # NORMAL /\ ret.op = "setup"

\* ------------------------------------------------------------------------
\* The rules of chess the board claims are compared with
\* ------------------------------------------------------------------------
Abs(a) == IF a < 0 THEN 0 - a ELSE a
Sign(a) == IF a < 0 THEN -1 ELSE IF a > 0 THEN 1 ELSE 0
Max2(a, b) == IF a < b THEN b ELSE a

\* All squares strictly between s and x on their common line are empty.
ClearLine(b, s, x) ==
    LET dr == (x \div 8) - (s \div 8)
        dc == (x % 8) - (s % 8)
        n == Max2(Abs(dr), Abs(dc))
    IN \A k \in 1 .. (n - 1) : b[s + k * (8 * Sign(dr) + Sign(dc))] = EMPTY

\* The piece on s attacks the square x by the rules.
RuleAttacks(b, s, x) ==
    LET dr == (x \div 8) - (s \div 8)
        dc == (x % 8) - (s % 8)
        p == b[s]
        diagonal == Abs(dr) = Abs(dc) /\ dr # 0 /\ ClearLine(b, s, x)
        straight == (dr = 0 \/ dc = 0) /\ s # x /\ ClearLine(b, s, x)
    IN \/ p = wPAWN /\ dr = 1 /\ Abs(dc) = 1
       \/ p = bPAWN /\ dr = -1 /\ Abs(dc) = 1
       \/ p \in {wKNIGHT, bKNIGHT} /\ {Abs(dr), Abs(dc)} = {1, 2}
       \/ p \in {wKING, bKING} /\ Max2(Abs(dr), Abs(dc)) = 1
       \/ p \in {wBISHOP, bBISHOP} /\ diagonal
       \/ p \in {wROOK, bROOK} /\ straight
       \/ p \in {wQUEEN, bQUEEN} /\ (diagonal \/ straight)

\* The square x is attacked by a piece of the given side.
RuleAttacked(b, x, byBlack) ==
    \E s \in Squares :
        /\ IF byBlack THEN b[s] >= bPAWN /\ b[s] <= bKING
                      ELSE b[s] >= wPAWN /\ b[s] <= wKING
        /\ RuleAttacks(b, s, x)

\* The king square of the side to move in position data n.
OwnKing(n) == IF n.PLAYER_TURN = BLACK THEN n.bKING_SQUARE ELSE n.wKING_SQUARE

\* The generated moves of a side that has pawns and a king only after which
\* its king is not attacked: its legal moves.
RuleLegalMoves(b, n) ==
    {m \in PawnKingMoves(b, n) :
        LET r == playMoveUpdating(b, ChildNode(n, m[1], m[2]))
            ks == IF n.PLAYER_TURN = BLACK THEN r.n.bKING_SQUARE
                                           ELSE r.n.wKING_SQUARE
        IN ~RuleAttacked(r.b, ks, n.PLAYER_TURN = WHITE)}

\* C14: expanding a position in which the side to move is in check and has
\* exactly one legal move gives that node numMoves = numChildren = 1.
C14_OneEscapeOneChild ==
    (/\ aux.st \in {"queued", "expanded", "terminal"}
     /\ RuleAttacked(aux.b, OwnKing(aux.n), aux.n.PLAYER_TURN = WHITE)
     /\ Cardinality(RuleLegalMoves(aux.b, aux.n)) = 1)
        => (/\ aux.numMoves = 1
            /\ aux.st = "expanded" => aux.numChildren = 1)

\* C14 (the case): a node in check with one escape has been expanded.
C14_OneEscapeExpanded ==
    /\ aux.st = "expanded"
    /\ RuleAttacked(aux.b, OwnKing(aux.n), aux.n.PLAYER_TURN = WHITE)
    /\ Cardinality(RuleLegalMoves(aux.b, aux.n)) = 1

\* The en passant captures among the generated moves: a pawn moves
\* diagonally onto an empty square.
EnPassantCaptures(b, n) ==
    {m \in PawnKingMoves(b, n) :
        /\ b[m[1]] \in {wPAWN, bPAWN}
        /\ m[2] < 64
        /\ m[2] % 8 # m[1] % 8
        /\ b[m[2]] = EMPTY}

\* C15: an en passant capture is generated for a node only if the move that
\* led to the node was a double step of an enemy pawn that landed beside
\* the capturing pawn, on the file the capture goes to; so the file a
\* double step records is gone for every deeper descendant.
C15_EnPassantOnlyAsReply ==
    \A m \in EnPassantCaptures(aux.b, aux.n) :
        /\ Len(aux.path) >= 1
        /\ LET last == aux.path[Len(aux.path)]
           IN /\ aux.rb[last.tt] = (IF aux.n.PLAYER_TURN = WHITE THEN bPAWN ELSE wPAWN)
              /\ Abs(last.tt - last.f) = 16
              /\ last.tt % 8 = m[2] % 8
              /\ last.tt \div 8 = m[1] \div 8

\* C15 (the case): an en passant capture is generated in reply to a double
\* step.
C15_EnPassantGenerated ==
    EnPassantCaptures(aux.b, aux.n) # {}

\* C15 (the other case): two plies after a double step beside an enemy pawn
\* both pawns still stand there and no en passant capture is generated.
C15_EnPassantExpired ==
    /\ Len(aux.path) = 3
    /\ aux.path[1].f = 50 /\ aux.path[1].t = 34
    /\ aux.b[33] = wPAWN /\ aux.b[34] = bPAWN
    /\ aux.n.PLAYER_TURN = WHITE
    /\ EnPassantCaptures(aux.b, aux.n) = {}

\* A castling move of the side to move in the tested position: the squares
\* the king crosses and the squares between king and rook.
CastleSquares(f, t) ==
    IF f = 4 /\ t = 6 THEN [path |-> {5, 6}, between |-> {5, 6}]
    ELSE IF f = 4 /\ t = 2 THEN [path |-> {3, 2}, between |-> {1, 2, 3}]
    ELSE IF f = 60 /\ t = 62 THEN [path |-> {61, 62}, between |-> {61, 62}]
    ELSE [path |-> {59, 58}, between |-> {57, 58, 59}]

CastleFlag(d, f, t) ==
    IF f = 4 /\ t = 6 THEN d.wKINGSIDE_CASTLE
    ELSE IF f = 4 /\ t = 2 THEN d.wQUEENSIDE_CASTLE
    ELSE IF f = 60 /\ t = 62 THEN d.bKINGSIDE_CASTLE
    ELSE d.bQUEENSIDE_CASTLE

CastlingTested ==
    /\ aux.st = "done"
    /\ <<aux.f, aux.t>> \in {<<4, 6>>, <<4, 2>>, <<60, 62>>, <<60, 58>>}

\* C16: test_legality accepts a castling move only if the castling flag of
\* the position is set, every square between king and rook is empty, and
\* the king's source, transit and destination squares are not attacked.
C16_CastlingAcceptedByRule ==
    (CastlingTested /\ aux.ok) =>
        LET sq == CastleSquares(aux.f, aux.t)
            byBlack == aux.d0.PLAYER_TURN = WHITE
            lifted == [aux.b0 EXCEPT ![aux.f] = EMPTY]
        IN /\ CastleFlag(aux.d0, aux.f, aux.t) # 0
           /\ \A s \in sq.between : aux.b0[s] = EMPTY
           /\ ~RuleAttacked(aux.b0, aux.f, byBlack)
           /\ \A s \in sq.path : ~RuleAttacked(lifted, s, byBlack)

\* C16 (the case): a castling move was tested and accepted.
C16_CastlingAccepted ==
    CastlingTested /\ aux.ok

\* C17: when isLegalMove answers false, the board and the descriptor it was
\* given are as they were before the call.
C17_RejectionChangesNothing ==
    (aux.st = "done" /\ ~aux.ok) => (aux.b = aux.b0 /\ aux.d = aux.d0)

\* C17 (the case): a move was tested and rejected.
C17_MoveRejected ==
    aux.st = "done" /\ ~aux.ok

\* The square of the tested side's king in the position given to test_check.
TestedKing(isBlack, p) == IF isBlack THEN p.d.bKING_SQUARE ELSE p.d.wKING_SQUARE

\* C18: test_check(side, position) answers true iff the king of that side,
\* on the king square of the given position, is attacked on the given
\* board, whatever was called before.
C18_CheckAnswersForGivenPosition ==
    ret.op = "check" =>
        LET isBlack == ret.args[1]
            p == ret.args[2]
        IN ret.ok <=> RuleAttacked(p.b, TestedKing(isBlack, p), ~isBlack)

\* C18 (the case): test_check has answered after a session was set up.
C18_CheckAfterSetup ==
    ret.op = "check" /\ calls = 4 /\ setupComplete

\* The nodes of the current tree classified with the game state gs.
NodesInState(gs) == {n \in Tree : nodes[n].GAME_STATE = gs}

\* C19: whenever no expansion is in progress, stalemates_found,
\* white_wins_found and black_wins_found are the numbers of nodes of the
\* current tree classified DRAW, WHITE_WIN and BLACK_WIN.
C19_TalliesCountTerminalNodes ==
    SessionQuiet =>
        /\ calcNumStalematesFound = Cardinality(NodesInState(DRAW))
        /\ calcNumWhiteWinsFound = Cardinality(NodesInState(WHITE_WIN))
        /\ calcNumBlackWinsFound = Cardinality(NodesInState(BLACK_WIN))

\* C19 (the case): a session at rest whose tree has a terminal node below
\* the root.
C19_TerminalChildFound ==
    /\ SessionQuiet
    /\ \E n \in Tree \ {0} : nodes[n].GAME_STATE # NORMAL

\* The root of the session that was set up had no moves: the generator left
\* its numMoves unset (the move pool of these sessions never fills).
RootWithoutMoves == setupComplete /\ nodes[0].numMoves = UNDEFINED

\* The eval that goes with a terminal classification of a node.
TerminalEval(n) ==
    IF n.GAME_STATE = DRAW THEN DRAW_EVAL
    ELSE IF n.GAME_STATE = WHITE_WIN THEN WHITE_WINS_EVAL ELSE BLACK_WINS_EVAL

\* C20: when the root position yields no moves, setup_evaluation classifies
\* the root as terminal and leaves every queue empty, a following
\* evaluate_time returns with zero root children, and get_output reports
\* zero choices together with the root's terminal eval: an int of the
\* output other than the number of choices and the three counters that end
\* it.
C20_TerminalRootReported ==
    (RootWithoutMoves /\ dpc = "idle") =>
        /\ nodes[0].GAME_STATE \in {DRAW, WHITE_WIN, BLACK_WIN}
        /\ nodes[0].e = TerminalEval(nodes[0])
        /\ \A t \in Threads : futuresHeap[t] = <<>>
        /\ nodes[0].numChildren = 0
        /\ ret.op = "output" =>
              /\ ret.args[1] = 0
              /\ \E i \in 2 .. Len(ret.args) - 3 :
                    ret.args[i] \in WrittenEval(nodes[0].e)

\* C20 (the case): get_output has answered for a session whose root had no
\* moves and whose evaluate_time has returned.
C20_OutputForTerminalRoot ==
    RootWithoutMoves /\ dpc = "idle" /\ ret.op = "output" /\ calls = 4

\* Node k has the fields examineNextPosition gives a child of node p.
ChildOf(k, p) ==
    /\ nodes[k].parentIndex = p
    /\ nodes[k].score = nodes[p].score + DEPTH_STEP
    /\ nodes[k].PLAYER_TURN = 1 - nodes[p].PLAYER_TURN

\* C21: in every reachable state every index of a published slice
\* [childStartIndex, childStartIndex + numChildren) of a node of the tree
\* holds an initialised node whose parentIndex is that node.
C21_PublishedSliceInitialised ==
    setupComplete =>
        \A p \in Tree : \A k \in Slice(nodes, p) : ChildOf(k, p)

\* C21 (the case): an expansion was aborted by move-pool exhaustion and
\* every thread is at rest.
C21_ExpansionAborted ==
    /\ SessionQuiet
    /\ globalMoveLength >= globalMoveCap
    /\ \E p \in Tree : nodes[p].numChildren > 0

\* C22: every node written by an expansion has an index below nodeCap and
\* every move descriptor written has an index below globalMoveCap: a slice
\* of children and a node's slice of the move pool end within the capacity.
C22_WritesWithinCapacity ==
    setupComplete =>
        /\ \A k \in NodeIdx : nodes[k] # JunkNode => k < nodeCap
        /\ \A n \in Tree :
              nodes[n].numMoves > 0 =>
                 nodes[n].moveStartIndex + nodes[n].numMoves <= globalMoveCap

\* C22 (the case): a reservation was refused for lack of space.
C22_ReservationRefused ==
    setupComplete /\ failedBy # {}

\* C23: the eval of an expanded node is stored only by the thread that
\* expanded it: every store of evalBacktrack is made by the thread that
\* expanded the node stored to.
C23_EvalStoredByExpander ==
    [][\A t \in Threads :
          (pc[t] = "bt_store" /\ pc'[t] # "bt_store")
             => expandedBy[loc[t].bn] = t]_vars

\* C23 (the case): evalBacktrack has stored the eval of the node it started
\* at and has walked on to the parent.
C23_BacktrackStored ==
    \E t \in Threads : pc[t] = "bt_read" /\ loc[t].bn # loc[t].index

\* C24: the eval of the child created for the root's j-th move, once its
\* creation is finished, is the root's eval plus evals[j], the static delta
\* of the move that leads to the child.
C24_ChildEvalIsParentPlusDelta ==
    \A j \in 1 .. aux.i : aux.ns[j].e = aux.ns[0].e + aux.evals[j]

\* C24 (the case): a child that has moves of its own has been created.
C24_ChildCreated ==
    aux.i >= 1 /\ aux.ns[aux.i].numMoves > 0

\* C25: after every call of examineAllSemilegalMoves the 64 squares of the
\* calculating board equal the root board, and no byte outside the 64
\* squares has been written.
C25_ScratchBoardRestored ==
    Len(aux.path) >= 1 => \A s \in Mem : aux.cb[s] = aux.rootb[s]

\* C25 (the case): the call replayed and undid a path of two or more moves,
\* one of them a capture.
C25_PathUndone ==
    /\ Len(aux.path) >= 2
    /\ \E i \in 1 .. Len(aux.path) : aux.rootb[aux.path[i].tt] # EMPTY

\* C26: a node whose generation found no move is a draw exactly when the
\* king of its side to move is not attacked in the node's own position, and
\* otherwise a win of the opponent.
C26_TerminalByOwnPosition ==
    (Len(aux.path) >= 1 /\ PawnKingMoves(aux.b, aux.n) = {}) =>
        aux.n.GAME_STATE =
            IF ~RuleAttacked(aux.rb, OwnKing(aux.n), aux.n.PLAYER_TURN = WHITE)
            THEN DRAW
            ELSE IF aux.n.PLAYER_TURN = BLACK THEN WHITE_WIN ELSE BLACK_WIN

\* C26 (the case): a node below the root has been generated without a move
\* and classified.
C26_NodeWithoutMoves ==
    /\ Len(aux.path) >= 1
    /\ PawnKingMoves(aux.b, aux.n) = {}
    /\ aux.n.GAME_STATE # NORMAL

\* How often index q is queued, over all queues.
HeldAnywhere(q) ==
    Cardinality(UNION {{<<t, j>> : j \in {x \in DOMAIN futuresHeap[t] :
                                              futuresHeap[t][x] = q}} :
                          t \in Threads})

\* C27: when a multithreaded setupEvaluation returns, the main thread's
\* queue is empty, the distribution has moved every index it found there
\* into exactly one queue of the other workers, the sizes of those queues
\* differ by at most one, and the main thread expanded at most numSeedReps
\* nodes.
C27_SeedsDistributed ==
    /\ [](SetupReturned =>
            /\ futuresHeap[0] = <<>>
            /\ \A q \in NodeIdx : HeldAnywhere(q) <= 1
            /\ \A t, u \in 1 .. (numThreads - 1) :
                  Len(futuresHeap[t]) - Len(futuresHeap[u]) <= 1
            /\ Cardinality({k \in NodeIdx : expandedBy[k] = 0}) <= numSeedReps)
    /\ [][dpc = "distribute" =>
            \A q \in NodeIdx : HeldAnywhere(q)' = HeldAnywhere(q)]_vars

\* C27 (the case): after one seeding expansion the root's two children have
\* gone to the two workers, one each.
C27_TwoWorkersSeeded ==
    /\ SetupReturned
    /\ numThreads = 3
    /\ expandedBy[0] = 0
    /\ Len(futuresHeap[1]) = 1
    /\ Len(futuresHeap[2]) = 1

\* C28: every node of the current tree has numChildren equal to numMoves
\* (both zero before its expansion and when it is terminal), whether it is
\* the root, queued, terminal or a node whose expansion was given up.
C28_ChildrenMatchMoves ==
    SetupReturned =>
        \A n \in Tree : nodes[n].numChildren = nodes[n].numMoves

\* C28 (the case): setupEvaluation has returned and a node of the tree is
\* queued for expansion.
C28_NodeQueued ==
    /\ SetupReturned
    /\ \E n \in Tree : HeldAnywhere(n) = 1

\* The nodes of the session that have been written: the root, and every
\* reserved index that the child loop of its parent has passed.
Created ==
    {c \in NodeIdx :
        /\ c < numNodes
        /\ c = 0 \/ nodes[c] # JunkNode
        /\ ~\E t \in Threads : /\ pc[t] = "child"
                               /\ c >= loc[t].l + loc[t].i
                               /\ c < loc[t].l + loc[t].nc}

RECURSIVE Depth(_, _)
\* The number of parent links from node k to the root (d bounds the walk).
Depth(k, d) ==
    IF k = 0 \/ d = 0 THEN 0 ELSE 1 + Depth(nodes[k].parentIndex, d - 1)

C30_FiftyMoveCounter ==
    [][LET m == aux'.path[Len(aux'.path)]
           reset == aux.rb[m.f] \in {wPAWN, bPAWN} \/ aux.rb[m.tt] # EMPTY
           next == IF aux.n.FIFTY_MOVE_COUNTER + 1 < 100
                   THEN aux.n.FIFTY_MOVE_COUNTER + 1 ELSE 100
       IN /\ aux'.n.FIFTY_MOVE_COUNTER \in 0 .. 100
          /\ aux'.n.FIFTY_MOVE_COUNTER = IF reset THEN 0 ELSE next]_vars

\* C30 (the case): a child of the root reached by a king move to an empty
\* square.
C30_QuietKingMove ==
    /\ Len(aux.path) = 1
    /\ aux.rootb[aux.path[1].f] \in {wKING, bKING}
    /\ aux.rootb[aux.path[1].tt] = EMPTY

\* The true destination of an encoded destination, and the piece a pawn
\* becomes there (the mover p when the move is not a promotion).
TrueSquare(to) ==
    IF to >= 96 THEN to % 8 ELSE IF to >= 64 THEN 56 + (to % 8) ELSE to

PieceAfter(p, to) ==
    IF to >= 96 THEN (to \div 8) - 5
    ELSE IF to >= 64 THEN (to \div 8) - 7 ELSE p

\* C31: the delta eval stored for a generated move from F to the true
\* destination T is table[X][T] - table[mover][F], less table[captured][T]
\* when T is occupied, with X the promotion piece the destination encodes or
\* the mover when it encodes none.
C31_DeltaFromTables ==
    aux.m # <<>> =>
        LET F == aux.m[1]
            T == TrueSquare(aux.m[2])
            X == PieceAfter(aux.b[F], aux.m[2])
        IN aux.e = evalBoards(X, T) - evalBoards(aux.b[F], F)
                     - (IF aux.b[T] # EMPTY THEN evalBoards(aux.b[T], T) ELSE 0)

\* C31 (the case): the delta of a promotion has been stored.
C31_PromotionEvaluated ==
    aux.m # <<>> /\ aux.m[2] >= 64

\* C36: kingNotInCheck(b, x, isBlack) answers true exactly when no piece of
\* the other side attacks square x, on every square (edges and corners
\* included) and whether or not a king stands on x.
C36_CheckTestMatchesRules ==
    aux.done => (aux.ans <=> ~RuleAttacked(aux.b, aux.x, ~aux.isBlack))

\* C36 (the case): the edge square a2 is tested and found safe while a king
\* of the other side stands on h1, the square before it in the board array.
C36_EdgeTested ==
    /\ aux.done
    /\ aux.x = 8 /\ aux.b[7] \in {wKING, bKING} /\ aux.b[8] # EMPTY
    /\ aux.ans

\* The flag, the corner, the squares between and the three king squares of
\* the castling move of the side to move whose king lands on dest.
CastleSide(n, dest) ==
    LET h == HomeRank(n.PLAYER_TURN)
        kingside == dest = h + 6
    IN [flag |-> IF n.PLAYER_TURN = WHITE
                 THEN (IF kingside THEN n.wKINGSIDE_CASTLE ELSE n.wQUEENSIDE_CASTLE)
                 ELSE (IF kingside THEN n.bKINGSIDE_CASTLE ELSE n.bQUEENSIDE_CASTLE),
        corner |-> IF kingside THEN h + 7 ELSE h,
        between |-> IF kingside THEN {h + 5, h + 6} ELSE {h + 1, h + 2, h + 3},
        path |-> IF kingside THEN {h + 4, h + 5, h + 6} ELSE {h + 4, h + 3, h + 2}]

\* C32: a castling move is generated only when the flag of that side of the
\* node is set, the king and the rook stand on their home squares, the
\* squares between them are empty and no piece of the other side attacks the
\* king's source, transit or destination square; the generators leave the
\* scratch board as they found it.
C32_CastlingOnlyWhenAllowed ==
    aux.done =>
      /\ aux.after = aux.b
      /\ \A dest \in aux.castles :
           LET c == CastleSide(aux.n, dest)
               white == aux.n.PLAYER_TURN = WHITE
               h == HomeRank(aux.n.PLAYER_TURN)
           IN /\ c.flag # 0
              /\ aux.b[h + 4] = (IF white THEN wKING ELSE bKING)
              /\ aux.b[c.corner] = (IF white THEN wROOK ELSE bROOK)
              /\ \A q \in c.between : aux.b[q] = EMPTY
              /\ \A q \in c.path : ~RuleAttacked(aux.b, q, white)

\* C32 (the case): with both flags set and both rooks at home, castling
\* kingside is generated and castling queenside is not, because a piece of
\* the other side attacks a square the king would cross.
C32_OneSideDenied ==
    /\ aux.done
    /\ aux.n.PLAYER_TURN = WHITE
    /\ aux.n.wKINGSIDE_CASTLE # 0 /\ aux.n.wQUEENSIDE_CASTLE # 0
    /\ aux.b[0] = wROOK /\ aux.b[7] = wROOK
    /\ \A q \in {1, 2, 3} : aux.b[q] = EMPTY
    /\ aux.castles = {6}
    /\ RuleAttacked(aux.b, 3, TRUE)

\* Worker t is inside the loop of evaluatePositionInfinite.
InLoop(t) == pc[t] = "inf_top" \/ InExpansion(t)

\* The step is a write of the driver to the queue of thread t: the clearing
\* of every queue as setupEvaluation begins, or a push of the distribution.
DriverWrites(t) ==
    \/ dpc = "idle" /\ dpc' = "seeding" /\ t < numThreads
    \/ dpc = "distribute" /\ futuresHeap'[0] # futuresHeap[0] /\ dloc.i = t

\* C33: the driver writes the queue of a worker (clearing it or pushing to
\* it in setupEvaluation) only while that worker is not inside its expansion
\* loop, for every sequence of calls.
C33_DriverAloneOnQueue ==
    [][\A t \in Workers : DriverWrites(t) => ~InLoop(t)]_vars

\* C33 (the case): setupEvaluation is distributing nodes to the workers in a
\* session that follows a started one.
C33_SecondDistribution ==
    dpc = "distribute" /\ calls >= 4 /\ futuresHeap[0] # <<>>

\* C34: numThreadsRunning stays within 0 .. numThreads-1 in every state, for
\* every sequence of evaluateStart, evaluateStop and evaluateTime calls
\* (evaluateStart repeated without a stop included) and every interleaving
\* with the workers' loops.
C34_RunningCounterInRange ==
    initComplete => numThreadsRunning \in 0 .. (numThreads - 1)

\* C34 (the case): evaluateStart has returned a second time without an
\* evaluateStop in between.
C34_StartedTwice ==
    dpc = "idle" /\ calls = 4 /\ ret.op = "start" /\ ret.ok

\* C35: the score of a child is its parent's score plus the absolute
\* difference between the parent's eval and the child's eval plus a depth
\* cost, so of two children of the root the one whose move loses more eval
\* has the larger score.
C35_ScoreGrowsWithEvalLoss ==
    \A j1, j2 \in 1 .. aux.i :
        Abs(aux.evals[j1]) > Abs(aux.evals[j2]) =>
            aux.ns[j1].score > aux.ns[j2].score

\* C35 (the case): two children of the root have been created whose moves
\* change the eval by different amounts.
C35_UnequalLosses ==
    aux.i >= 2 /\ Abs(aux.evals[1]) # Abs(aux.evals[2])

\* C37: for every moveto value in 64..127 the reconstruction in
\* examineAllSemilegalMoves, examineMove and playMoveUpdating yield the same
\* true square and the same promotion piece, and getPromotionSquareCode of
\* that file and piece returns the value; for every value in 0..63 they
\* yield that square and no promotion.
C37_DecodersAgree ==
    aux.done =>
        IF aux.to >= 64
        THEN /\ aux.exm.tt = aux.rec.tt /\ aux.ply.tt = aux.rec.tt
             /\ aux.exm.promotion = aux.rec.piece
             /\ aux.ply.piece = aux.rec.piece
             /\ aux.rec.piece > -1
             /\ aux.code = aux.to
        ELSE /\ aux.rec.tt = aux.to /\ aux.exm.tt = aux.to /\ aux.ply.tt = aux.to
             /\ aux.rec.piece = -1 /\ aux.exm.promotion = -1
             /\ aux.ply.piece = -1

\* C37 (the case): a promotion to a queen on the h file has been decoded.
C37_QueenPromotionDecoded ==
    aux.done /\ aux.to \in {95, 127}

\* The step runs getSortedChoices in evaluateStop, or is a call of
\* _getOutputData that finds nodes allocated: the root's numChildren and
\* childStartIndex and the children's evals are read.
SliceRead ==
    \/ dpc = "stop_wait" /\ dpc' # "stop_wait"
    \/ dpc = "idle" /\ NextCall("output", <<>>) /\ calls' = calls + 1
         /\ initComplete

\* C38: get_output and evaluate_stop read the root's child slice only if a
\* setupEvaluation has completed since the last successful init; before
\* that get_output reports zero choices.
C38_SliceReadOnlyAfterSetup ==
    /\ []((dpc = "idle" /\ ret.op = "output" /\ ~setupComplete) =>
            ret.args[1] = 0)
    /\ [][SliceRead => setupComplete]_vars

\* C38 (the case): get_output has returned after an init that followed a
\* finished session, with no setupEvaluation since.
C38_OutputAfterReinit ==
    dpc = "idle" /\ ret.op = "output" /\ ~setupComplete /\ calls = 5

\* The step is a dequeue by thread t in examineNextPosition.
Dequeues(t) == pc[t] = "pop" /\ pc'[t] # "pop" /\ futuresHeap[t] # <<>>

RECURSIVE ReachesRoot(_, _)
\* Following parent links from node k reaches the root within d steps.
ReachesRoot(k, d) ==
    IF k = 0 THEN TRUE
    ELSE IF d = 0 \/ k \notin NodeIdx THEN FALSE
    ELSE ReachesRoot(nodes[k].parentIndex, d - 1)

\* C40: every node of a published child slice has a parentIndex that is
\* smaller than its own index and is the index of the node that published
\* the slice, so its parent links lead to the root without a repetition.
C40_ParentLinksLeadToRoot ==
    setupComplete =>
        \A p \in Tree : \A k \in Slice(nodes, p) :
            /\ nodes[k].parentIndex = p
            /\ p < k
            /\ ReachesRoot(k, MaxDepth + 1)

\* C40 (the case): a node below the root has published a slice of children.
C40_InnerSlicePublished ==
    /\ setupComplete
    /\ \E p \in Tree : p # 0 /\ Slice(nodes, p) # {}
====
